---- MODULE Spec2Model ----
(***************************************************************************)
(* State-machine model of the ordx rune indexer: the block loop of         *)
(* main.rs, the per-transaction rune state machine of updater.rs and the   *)
(* FastStore (RocksDB) operations and the rewind of db/mod.rs.             *)
(*                                                                         *)
(* Conventions.  Option<T> is modelled by the value None (-1) for naturals *)
(* and by the record NoRes for records.  A HashMap is a function with a    *)
(* finite domain.  A column family is a function from its keys to values;  *)
(* ordered iteration is modelled on the keys' byte order.  Amounts are     *)
(* small naturals (u128 overflow is not reached).                          *)
(***************************************************************************)
EXTENDS Integers, Sequences, FiniteSets, TLC

\* ------------------------------------------------------------------ bounds

\* Highest block height the node mines.
MaxHeight == 10
\* Number of chain reorganisations of the node.
MaxReorgs == 1
\* How many blocks the node may be ahead of the block the indexer wants next.
MaxLead == 1
\* Heights up to which mined blocks may carry rune transactions.
MaxContentHeight == 8
\* Lowest height of a block of the node that holds transactions.
FirstContentHeight == 7
\* Transactions per mined block.
MaxTxs == 1
\* Greatest height of a block handed to the store when it is driven directly.
MaxApiHeight == 18
\* Number of times the process stops while it works on a block.
MaxCrashes == 1
\* Greatest height of a block processed by the runs with process stops.
MaxCrashHeight == 9
\* Greatest height of a block processed while the store is read concurrently.
MaxReadHeight == 8
\* Highest tip of the chain the indexer has processed before a long branch.
MaxDeepTip == 18
\* Greatest height of a block handed to the store on mainnet.
MaxMainnetHeight == 9

\* --------------------------------------------------------- program constants

REORG_DEPTH == 10

\* The attempts main gives with_retry for the fetch of a block.
FetchAttempts == 10

\* Runestone::COMMIT_CONFIRMATIONS of the ordinals library.
COMMIT_CONFIRMATIONS == 6

\* First height the indexer processes (main.rs: network dependent).
first_rune_height == 6

\* Statistic tags: one-byte prefixes of HEIGHT_TO_STATISTIC_COUNT keys.
StatReservedRunes == 8
StatRunes == 9
StatLatestHeight == 255

\* Option::None for naturals.
None == 0 - 1

\* ------------------------------------------------------------------ helpers

Min(a, b) == IF a <= b THEN a ELSE b
Max(a, b) == IF a >= b THEN a ELSE b

Range(f) == {f[x] : x \in DOMAIN f}

EmptyMap == <<>>

\* HashMap::get(k).unwrap_or_default()
GetOr0(m, k) == IF k \in DOMAIN m THEN m[k] ELSE 0
GetOrEmpty(m, k) == IF k \in DOMAIN m THEN m[k] ELSE {}

\* *map.entry(k).or_default() += x
MapAdd(m, k, x) ==
  IF k \in DOMAIN m THEN [m EXCEPT ![k] = @ + x] ELSE m @@ (k :> x)

\* put / delete of a column family
Put(cf, k, v) == IF k \in DOMAIN cf THEN [cf EXCEPT ![k] = v] ELSE cf @@ (k :> v)
Del(cf, ks) == [k \in (DOMAIN cf) \ ks |-> cf[k]]

RECURSIVE SumOver(_, _)
SumOver(f, S) ==
  IF S = {} THEN 0
  ELSE LET x == CHOOSE y \in S : TRUE IN f[x] + SumOver(f, S \ {x})

\* Lexicographic order of tuples of naturals of equal length: the byte order
\* of big-endian keys.
RECURSIVE LexLess(_, _)
LexLess(a, b) ==
  IF Len(a) = 0 \/ Len(b) = 0 THEN Len(a) < Len(b)
  ELSE IF a[1] # b[1] THEN a[1] < b[1]
  ELSE LexLess(Tail(a), Tail(b))

\* Keys removed by `for k in iterator(End) { if pred(k) { delete } else { break } }`:
\* the run of keys at the upper end of the key order that satisfy the test
\* (pass: the keys that satisfy it).
ReverseScanWhile(keys, pass) ==
  {k \in keys \cap pass : \A k2 \in keys : LexLess(k, k2) => k2 \in pass}

\* The sequence of the elements of a set of tuples in ascending key order.
RECURSIVE SortedSeq(_)
SortedSeq(S) ==
  IF S = {} THEN <<>>
  ELSE LET m == CHOOSE x \in S : \A y \in S : y = x \/ LexLess(x, y)
       IN <<m>> \o SortedSeq(S \ {m})

\* ordinals::varint::encode_to_vec: LEB128, 7 bits per byte.
RECURSIVE VarintLen(_)
VarintLen(n) == IF n < 128 THEN 1 ELSE 1 + VarintLen(n \div 128)

\* ---------------------------------------------------------------- data model

\* RuneId::default()
ZeroId == <<0, 0>>
\* Option<RuneId>::None
NoId == <<None, None>>

\* Option<Terms>::None, and a Terms value (entry.rs TermsEntryValue).
NoTerms ==
  [some |-> FALSE, amount |-> None, cap |-> None,
   height |-> <<None, None>>, offset |-> <<None, None>>]
Terms(amount, cap, height, offset) ==
  [some |-> TRUE, amount |-> amount, cap |-> cap, height |-> height, offset |-> offset]

\* Option<Etching>::None and an Etching (rune: Option<Rune>, premine: Option<u128>).
NoEtching == [some |-> FALSE, rune |-> None, premine |-> None, terms |-> NoTerms]
Etching(rune, premine, terms) ==
  [some |-> TRUE, rune |-> rune, premine |-> premine, terms |-> terms]

\* Result of Runestone::decipher(tx): None, Artifact::Runestone, Artifact::Cenotaph.
NoArtifact ==
  [kind |-> "none", mint |-> NoId, etching |-> NoEtching, edicts |-> <<>>, pointer |-> None]
Runestone(mint, etching, edicts, pointer) ==
  [kind |-> "runestone", mint |-> mint, etching |-> etching, edicts |-> edicts,
   pointer |-> pointer]
Cenotaph(mint, etching) ==
  [kind |-> "cenotaph", mint |-> mint, etching |-> etching, edicts |-> <<>>,
   pointer |-> None]

Edict(id, amount, output) == [id |-> id, amount |-> amount, output |-> output]

\* A transaction input: the outpoint it spends, the rune name whose commitment
\* its tapscript pushes (None: no such push), whether the spent output is p2tr
\* and the height of the block holding the spent transaction (the two answers
\* of the node to get_raw_transaction_info / get_block_header_info).
TxIn(prev, push, p2tr, commit_height) ==
  [prev |-> prev, push |-> push, p2tr |-> p2tr, commit_height |-> commit_height]
\* A transaction output: is its script OP_RETURN, and the script's byte length.
TxOut(op_return, spk_len) == [op_return |-> op_return, spk_len |-> spk_len]

Tx(txid, input, output, artifact) ==
  [txid |-> txid, input |-> input, output |-> output, artifact |-> artifact]

\* OutPoint { txid, vout }, txid a triple.
OutPoint(txid, vout) == txid \o <<vout>>

\* The FastStore: one field per column family.
EmptyDb ==
  [headers |-> EmptyMap, statCount |-> EmptyMap, statValue |-> EmptyMap,
   balances |-> EmptyMap, runeEntries |-> EmptyMap, runeToId |-> EmptyMap,
   heightMints |-> EmptyMap, heightBurned |-> EmptyMap,
   idMints |-> EmptyMap, idBurned |-> EmptyMap, sideIndex |-> EmptyMap]

\* --------------------------------------------------------------- entry.rs

\* RuneEntry::start
EntryStart(e) ==
  LET relative == IF e.terms.offset[1] = None THEN None ELSE e.block + e.terms.offset[1]
      absolute == e.terms.height[1]
  IN IF ~e.terms.some THEN None
     ELSE IF relative # None /\ absolute # None THEN Max(relative, absolute)
     ELSE IF relative # None THEN relative
     ELSE absolute

\* RuneEntry::end
EntryEnd(e) ==
  LET relative == IF e.terms.offset[2] = None THEN None ELSE e.block + e.terms.offset[2]
      absolute == e.terms.height[2]
  IN IF ~e.terms.some THEN None
     ELSE IF relative # None /\ absolute # None THEN Min(relative, absolute)
     ELSE IF relative # None THEN relative
     ELSE absolute

\* Result<u128, MintError>: Ok(amount), or Err(err) with the value the error
\* carries in arg (None for Unmintable).
MintOk(amount) == [ok |-> TRUE, amount |-> amount, err |-> "none", arg |-> None]
MintErr(err, arg) == [ok |-> FALSE, amount |-> 0, err |-> err, arg |-> arg]

\* A mintable that tests the cap before the end of the mint window.
MintableCapFirst(e, height) ==
  LET cap == IF e.terms.cap = None THEN 0 ELSE e.terms.cap
  IN IF ~e.terms.some THEN MintErr("Unmintable", None)
     ELSE IF EntryStart(e) # None /\ height < EntryStart(e)
     THEN MintErr("Start", EntryStart(e))
     ELSE IF e.mints >= cap THEN MintErr("Cap", cap)
     ELSE IF EntryEnd(e) # None /\ height >= EntryEnd(e) THEN MintErr("End", EntryEnd(e))
     ELSE MintOk(IF e.terms.amount = None THEN 0 ELSE e.terms.amount)

\* RuneEntry::mintable.
Mintable(e, height) ==
  LET cap == IF e.terms.cap = None THEN 0 ELSE e.terms.cap
  IN IF ~e.terms.some THEN MintErr("Unmintable", None)
     ELSE IF EntryStart(e) # None /\ height < EntryStart(e)
     THEN MintErr("Start", EntryStart(e))
     ELSE IF EntryEnd(e) # None /\ height >= EntryEnd(e) THEN MintErr("End", EntryEnd(e))
     ELSE IF e.mints >= cap THEN MintErr("Cap", cap)
     ELSE MintOk(IF e.terms.amount = None THEN 0 ELSE e.terms.amount)

\* Byte length of a stored RuneBalanceEntry (confirmed_height u32, spent_height
\* u32, sat u64, spk bytes, rune_balance bytes): fixed-width little-endian
\* integers and a u64 length before each byte field.
BalanceBufLen(balances) ==
  LET F == [i \in DOMAIN balances |->
              VarintLen(balances[i][1][1]) + VarintLen(balances[i][1][2])
              + VarintLen(balances[i][2])]
  IN SumOver(F, DOMAIN balances)
EntryStoreLen(e) == 4 + 4 + 8 + (8 + e.spk_len) + (8 + BalanceBufLen(e.balances))

\* -------------------------------------------------- db/mod.rs: small methods

\* RunesDB::statistic_to_value_inc
statistic_to_value_inc(db, stat) ==
  [db EXCEPT !.statValue = Put(@, stat, GetOr0(@, stat) + 1)]

\* RunesDB::height_to_statistic_count_inc
height_to_statistic_count_inc(db, stat, height) ==
  [db EXCEPT !.statCount = Put(@, <<stat, height>>, GetOr0(@, <<stat, height>>) + 1)]

\* RunesDB::rune_id_height_to_mints_inc
rune_id_height_to_mints_inc(db, id, height) ==
  [db EXCEPT !.heightMints = Put(@, id \o <<height>>, GetOr0(@, id \o <<height>>) + 1)]

\* RunesDB::rune_id_to_mints_inc: the new value is also returned (db.idMints[id]).
rune_id_to_mints_inc(db, id) ==
  [db EXCEPT !.idMints = Put(@, id, GetOr0(@, id) + 1)]

\* RunesDB::rune_id_to_burned_inc: adds 1, whatever the amount burned.
rune_id_to_burned_inc(db, id) ==
  [db EXCEPT !.idBurned = Put(@, id, GetOr0(@, id) + 1)]

\* ------------------------------------------------------------- updater.rs

\* ordinals Rune::is_reserved / Rune::reserved / Rune::minimum_at_height, on a
\* scaled name space: names from ReservedBase on are reserved.
ReservedBase == 1000
IsReserved(rune) == rune >= ReservedBase
ReservedRune(height, tx_index) == ReservedBase + height * 10 + tx_index
MinimumAtHeight(height) == 2

\* The updater while it indexes a transaction: the fields of RuneUpdater read
\* here (db, the block's burned map, runes, outpoint_to_rune_ids as o2r) and
\* the locals of index_runes (un: unallocated, al: allocated per vout, etched);
\* temp is rune_balance_temp, the rune_balance rows staged for the RelStore.
NoEtched == [some |-> FALSE, id |-> NoId, rune |-> None]

\* RuneBalanceForTemp::default: inserts and updates by RuneBalanceKey
\* <<outpoint, rune id>> (RuneId's and Txid's to_string are injective); and
\* RuneEntryForTemp::default: rune_inserts and rune_updates by rune id.
EmptyTemp ==
  [inserts |-> EmptyMap, updates |-> EmptyMap, tx_ops |-> EmptyMap,
   rune_inserts |-> EmptyMap, rune_updates |-> EmptyMap]

\* RuneBalanceForTemp::insert_tx_op: tx_ops maps a txid to its RuneOpTypes.
insert_tx_op(temp, txid, op) ==
  [temp EXCEPT !.tx_ops = Put(@, txid, GetOrEmpty(@, txid) \cup {op})]

\* RuneBalanceForTemp::try_update for the keys <<outpoint, id>>, id in ids: a
\* row staged for insert in this block gets the spent height and txid, any
\* other key is staged as an update.
try_update(temp, outpoint, ids, spent_height, spent_txid) ==
  [temp EXCEPT
     !.inserts = [k \in DOMAIN @ |->
                    IF k[1] = outpoint /\ k[2] \in ids
                    THEN [@[k] EXCEPT !.spent_height = spent_height,
                                      !.spent_txid = spent_txid]
                    ELSE @[k]],
     !.updates = [k \in (DOMAIN @) \cup
                        ({<<outpoint, id>> : id \in ids} \ DOMAIN temp.inserts) |->
                    IF k[1] = outpoint /\ k[2] \in ids
                    THEN [spent_height |-> spent_height, spent_txid |-> spent_txid]
                    ELSE @[k]]]

\* RuneBalanceForTemp::insert for every (id, balance) of an output; the
\* address is the output's script, which the model knows by its length.
temp_insert(temp, outpoint, balances, height, address) ==
  [temp EXCEPT !.inserts =
     [k \in (DOMAIN @) \cup {<<outpoint, id>> : id \in DOMAIN balances} |->
        IF k[1] = outpoint /\ k[2] \in DOMAIN balances
        THEN [rune_amount |-> balances[k[2]], height |-> height, spent_height |-> 0,
              address |-> address, spent_txid |-> None]
        ELSE @[k]]]

\* RuneEntryForTemp::insert of the row create_rune_entry stages for the new
\* entry (updater.rs 351-375), on the columns number, premine, mints, burned
\* and height.
entry_insert(temp, id, entry, height) ==
  [temp EXCEPT !.rune_inserts =
     Put(@, id, [number |-> entry.number, premine |-> entry.premine,
                 mints |-> entry.mints, burned |-> entry.burned, height |-> height])]

\* RuneEntryForTemp::try_update with the mints and burned of the entry mint()
\* has written (updater.rs 441-446).
entry_try_update(temp, id, entry) ==
  IF id \in DOMAIN temp.rune_inserts
  THEN [temp EXCEPT !.rune_inserts[id].mints = entry.mints,
                    !.rune_inserts[id].burned = entry.burned]
  ELSE [temp EXCEPT !.rune_updates =
          Put(@, id, [mints |-> entry.mints, burned |-> entry.burned])]

StartTx(u, tx) ==
  [db |-> u.db, burned |-> u.burned, runes |-> u.runes, o2r |-> u.o2r,
   temp |-> u.temp, un |-> EmptyMap, al |-> [v \in 0 .. (Len(tx.output) - 1) |-> EmptyMap],
   etched |-> NoEtched]

\* RuneUpdater::unallocated: sums the balances of the spent outpoints into
\* u.un, marks each spent at this height and notes it in outpoint_to_rune_ids.
RECURSIVE UnallocatedFrom(_, _, _, _)
UnallocatedFrom(u, height, tx, i) ==
  IF i > Len(tx.input) THEN u
  ELSE
    LET prev == tx.input[i].prev IN
    IF prev \notin DOMAIN u.db.balances
    THEN UnallocatedFrom(u, height, tx, i + 1)
    ELSE
      LET entry == u.db.balances[prev]
          ids == {entry.balances[k][1] : k \in DOMAIN entry.balances}
          F == [id \in ids |->
                  SumOver([k \in DOMAIN entry.balances |->
                             IF entry.balances[k][1] = id THEN entry.balances[k][2] ELSE 0],
                          DOMAIN entry.balances)]
      IN UnallocatedFrom(
           [u EXCEPT !.un = [id \in (DOMAIN @) \cup ids |-> GetOr0(@, id) + GetOr0(F, id)],
                     !.db.balances = Put(@, prev, [entry EXCEPT !.spent = height]),
                     !.o2r = Put(@, prev, GetOrEmpty(@, prev) \cup ids),
                     !.temp = try_update(@, prev, ids, height, tx.txid)],
           height, tx, i + 1)

\* Every input that has a balance entry also tags the transaction Transfer.
Unallocated(u, height, tx) ==
  CHOOSE r \in {IF \E i \in DOMAIN tx.input : tx.input[i].prev \in DOMAIN u.db.balances
                THEN [v EXCEPT !.temp = insert_tx_op(@, tx.txid, "Transfer")]
                ELSE v :
                v \in {UnallocatedFrom(StartTx(u, tx), height, tx, 1)}} : TRUE

\* RuneUpdater::mint: [db, amount] (amount None when nothing is minted).
Mint(db, height, id) ==
  IF id \notin DOMAIN db.runeEntries THEN [db |-> db, amount |-> None]
  ELSE
    LET entry == db.runeEntries[id]
        m == Mintable(entry, height)
        db1 == rune_id_height_to_mints_inc(db, id, height)
        db2 == rune_id_to_mints_inc(db1, id)
        db3 == [db2 EXCEPT !.runeEntries = Put(@, id, [entry EXCEPT !.mints = db2.idMints[id]])]
    IN IF ~m.ok THEN [db |-> db, amount |-> None]
       ELSE [db |-> db3, amount |-> m.amount]

\* The test of one input with `confirmations > COMMIT_CONFIRMATIONS`.
InputCommitsOneMore(in, rune, height) ==
  /\ in.push = rune
  /\ in.p2tr
  /\ height - in.commit_height + 1 > COMMIT_CONFIRMATIONS

\* RuneUpdater::tx_commits_to_rune
InputCommits(in, rune, height) ==
  /\ in.push = rune
  /\ in.p2tr
  /\ height - in.commit_height + 1 >= COMMIT_CONFIRMATIONS
TxCommitsToRune(tx, rune, height) ==
  \E i \in DOMAIN tx.input : InputCommits(tx.input[i], rune, height)

\* etched without the lookup of the name in RUNE_TO_RUNE_ID.
EtchedNameTaken(db, height, tx_index, tx) ==
  LET a == tx.artifact
      none == [db |-> db, some |-> FALSE, id |-> NoId, rune |-> None]
      rune == a.etching.rune
      db1 == height_to_statistic_count_inc(db, StatReservedRunes, height)
      db2 == statistic_to_value_inc(db1, StatReservedRunes)
  IN IF a.kind = "none" \/ ~a.etching.some THEN none
     ELSE IF rune # None
     THEN IF \/ rune < MinimumAtHeight(height)
             \/ IsReserved(rune)
             \/ ~TxCommitsToRune(tx, rune, height)
          THEN none
          ELSE [db |-> db, some |-> TRUE, id |-> <<height, tx_index>>, rune |-> rune]
     ELSE [db |-> db2, some |-> TRUE, id |-> <<height, tx_index>>,
           rune |-> ReservedRune(height, tx_index)]

\* RuneUpdater::etched: [db, some, id, rune].
Etched(db, height, tx_index, tx) ==
  LET a == tx.artifact
      none == [db |-> db, some |-> FALSE, id |-> NoId, rune |-> None]
      rune == a.etching.rune
      db1 == height_to_statistic_count_inc(db, StatReservedRunes, height)
      db2 == statistic_to_value_inc(db1, StatReservedRunes)
  IN IF a.kind = "none" \/ ~a.etching.some THEN none
     ELSE IF rune # None
     THEN IF \/ rune < MinimumAtHeight(height)
             \/ IsReserved(rune)
             \/ rune \in DOMAIN db.runeToId
             \/ ~TxCommitsToRune(tx, rune, height)
          THEN none
          ELSE [db |-> db, some |-> TRUE, id |-> <<height, tx_index>>, rune |-> rune]
     ELSE [db |-> db2, some |-> TRUE, id |-> <<height, tx_index>>,
           rune |-> ReservedRune(height, tx_index)]

\* create_rune_entry without the write of Statistic::Runes.
CreateRuneEntryNoCount(db, runes, tx, id, rune) ==
  [db |-> [db EXCEPT !.runeToId = Put(@, rune, id),
                     !.runeEntries =
                       Put(@, id, [block |-> id[1], burned |-> 0, etching |-> tx.txid,
                                   terms |-> tx.artifact.etching.terms, mints |-> 0,
                                   number |-> runes, premine |-> 0, rune |-> rune])],
   runes |-> runes + 1]

\* create_rune_entry without the write of RUNE_TO_RUNE_ID.
CreateRuneEntryNoName(db, runes, tx, id, rune) ==
  [db |-> [db EXCEPT !.statValue = Put(@, StatRunes, runes + 1),
                     !.runeEntries =
                       Put(@, id, [block |-> id[1], burned |-> 0, etching |-> tx.txid,
                                   terms |-> tx.artifact.etching.terms, mints |-> 0,
                                   number |-> runes,
                                   premine |-> IF tx.artifact.etching.premine = None THEN 0
                                               ELSE tx.artifact.etching.premine,
                                   rune |-> rune])],
   runes |-> runes + 1]

\* RuneUpdater::create_rune_entry: [db, runes].
CreateRuneEntry(db, runes, tx, id, rune) ==
  LET a == tx.artifact
      number == runes
      entry == IF a.kind = "cenotaph"
               THEN [block |-> id[1], burned |-> 0, etching |-> tx.txid, terms |-> NoTerms,
                     mints |-> 0, number |-> number, premine |-> 0, rune |-> rune]
               ELSE [block |-> id[1], burned |-> 0, etching |-> tx.txid,
                     terms |-> a.etching.terms, mints |-> 0, number |-> number,
                     premine |-> IF a.etching.premine = None THEN 0 ELSE a.etching.premine,
                     rune |-> rune]
  IN [db |-> [db EXCEPT !.runeToId = Put(@, rune, id),
                        !.statValue = Put(@, StatRunes, runes + 1),
                        !.runeEntries = Put(@, id, entry)],
      runes |-> runes + 1]

\* Outputs are indexed by vout, from 0; tx.output[vout + 1] is the output.
Vouts(tx) == 0 .. (Len(tx.output) - 1)
\* A test that takes no script for OP_RETURN.
IsOpReturnNever(tx, vout) == FALSE

IsOpReturn(tx, vout) == tx.output[vout + 1].op_return

\* `allocate` without the debit of the unallocated balance.
AllocateNoDebit(u, id, amount, vout) ==
  IF amount > 0
  THEN [u EXCEPT !.al[vout] = MapAdd(@, id, amount)]
  ELSE u

\* The closure `allocate` of index_runes.
Allocate(u, id, amount, vout) ==
  IF amount > 0
  THEN [u EXCEPT !.un[id] = @ - amount, !.al[vout] = MapAdd(@, id, amount)]
  ELSE u

\* A split that gives the extra unit to the last destinations.
RECURSIVE SplitEvenlyLastFirst(_, _, _, _, _, _)
SplitEvenlyLastFirst(u, id, dests, i, amount, remainder) ==
  IF i > Len(dests) THEN u
  ELSE SplitEvenlyLastFirst(
         Allocate(u, id, IF Len(dests) - i < remainder THEN amount + 1 ELSE amount,
                  dests[i]),
         id, dests, i + 1, amount, remainder)

\* `for (i, output) in destinations` of an edict with amount == 0.
RECURSIVE SplitEvenly(_, _, _, _, _, _)
SplitEvenly(u, id, dests, i, amount, remainder) ==
  IF i > Len(dests) THEN u
  ELSE SplitEvenly(Allocate(u, id, IF i - 1 < remainder THEN amount + 1 ELSE amount,
                            dests[i]),
                   id, dests, i + 1, amount, remainder)

\* `for output in destinations` of an edict with amount > 0.
RECURSIVE SendToEach(_, _, _, _, _)
SendToEach(u, id, dests, i, amount) ==
  IF i > Len(dests) THEN u
  ELSE SendToEach(Allocate(u, id, Min(amount, u.un[id]), dests[i]),
                  id, dests, i + 1, amount)

\* The vouts of tx that are not OP_RETURN, ascending.
Destinations(tx) ==
  LET dests == SortedSeq({<<v>> : v \in {w \in Vouts(tx) : ~IsOpReturn(tx, w)}})
  IN [k \in DOMAIN dests |-> dests[k][1]]

\* An edict loop in which an edict to one output always sends `amount`, so
\* that amount 0 sends nothing.
ApplyEdictZeroSendsNothing(u, edict, tx) ==
  LET id == IF edict.id = ZeroId THEN u.etched.id ELSE edict.id
      n == Len(tx.output)
      destinations == Destinations(tx)
      balance == u.un[id]
  IN IF edict.id = ZeroId /\ ~u.etched.some THEN u
     ELSE IF id \notin DOMAIN u.un THEN u
     ELSE IF edict.output = n
     THEN IF Len(destinations) = 0 THEN u
          ELSE IF edict.amount = 0
          THEN SplitEvenly(u, id, destinations, 1,
                           balance \div Len(destinations), balance % Len(destinations))
          ELSE SendToEach(u, id, destinations, 1, edict.amount)
     ELSE Allocate(u, id, Min(edict.amount, balance), edict.output)

\* One iteration of the edict loop of index_runes.
ApplyEdict(u, edict, tx) ==
  LET id == IF edict.id = ZeroId THEN u.etched.id ELSE edict.id
      n == Len(tx.output)
      destinations == Destinations(tx)
      balance == u.un[id]
  IN IF edict.id = ZeroId /\ ~u.etched.some THEN u
     ELSE IF id \notin DOMAIN u.un THEN u
     ELSE IF edict.output = n
     THEN IF Len(destinations) = 0 THEN u
          ELSE IF edict.amount = 0
          THEN SplitEvenly(u, id, destinations, 1,
                           balance \div Len(destinations), balance % Len(destinations))
          ELSE SendToEach(u, id, destinations, 1, edict.amount)
     ELSE Allocate(u, id,
                   IF edict.amount = 0 THEN balance ELSE Min(edict.amount, balance),
                   edict.output)

RECURSIVE ApplyEdicts(_, _, _, _)
ApplyEdicts(u, edicts, i, tx) ==
  IF i > Len(edicts) THEN u
  ELSE ApplyEdicts(ApplyEdict(u, edicts[i], tx), edicts, i + 1, tx)

\* The default output taken without the pointer.
DefaultOutputNoPointer(tx) ==
  LET cands == {v \in Vouts(tx) : ~IsOpReturn(tx, v)}
  IN IF cands = {} THEN None
     ELSE CHOOSE v \in cands : \A w \in cands : v <= w

\* The vout that receives what is left unallocated: the pointer, or the first
\* output that is not OP_RETURN; None when there is none.
DefaultOutput(tx) ==
  LET cands == {v \in Vouts(tx) : ~IsOpReturn(tx, v)}
  IN IF tx.artifact.pointer # None THEN tx.artifact.pointer
     ELSE IF cands = {} THEN None
     ELSE CHOOSE v \in cands : \A w \in cands : v <= w

\* The (id, amount) pairs of a map in descending id order.
SortedBalancesDescending(m) ==
  LET ids == SortedSeq(DOMAIN m)
  IN [k \in DOMAIN ids |-> <<ids[Len(ids) + 1 - k], m[ids[Len(ids) + 1 - k]]>>]

\* `balances.sort()`: the (id, amount) pairs of a map in ascending id order.
SortedBalances(m) ==
  LET ids == SortedSeq(DOMAIN m) IN [k \in DOMAIN ids |-> <<ids[k], m[ids[k]]>>]

\* index_runes, the mint: `if let Some(amount) = self.mint(..)` credits the
\* amount to unallocated.
TxMint(u, height, tx) ==
  IF tx.artifact.kind # "none" /\ tx.artifact.mint # NoId
  THEN CHOOSE r \in {[u EXCEPT !.db = m.db,
                               !.un = IF m.amount # None
                                      THEN MapAdd(@, tx.artifact.mint, m.amount)
                                      ELSE @,
                               !.temp = IF m.amount # None
                                        THEN entry_try_update(
                                               insert_tx_op(@, tx.txid, "Mint"),
                                               tx.artifact.mint,
                                               m.db.runeEntries[tx.artifact.mint])
                                        ELSE @] :
                     m \in {Mint(u.db, height, tx.artifact.mint)}} : TRUE
  ELSE u

\* index_runes, `let etched = self.etched(..)`.
TxEtch(u, height, tx_index, tx) ==
  CHOOSE r \in {[u EXCEPT !.db = e.db,
                          !.etched = [some |-> e.some, id |-> e.id, rune |-> e.rune]] :
                e \in {Etched(u.db, height, tx_index, tx)}} : TRUE

\* index_runes, the premine and the edicts of a runestone.
TxPremine(u, tx) ==
  IF tx.artifact.kind = "runestone" /\ u.etched.some
  THEN [u EXCEPT !.un = MapAdd(@, u.etched.id,
                               IF tx.artifact.etching.premine = None THEN 0
                               ELSE tx.artifact.etching.premine),
                 !.temp = IF tx.artifact.etching.premine # None
                             /\ tx.artifact.etching.premine > 0
                          THEN insert_tx_op(@, tx.txid, "Premine")
                          ELSE @]
  ELSE u

TxEdicts(u, tx) ==
  IF tx.artifact.kind = "runestone" THEN ApplyEdicts(u, tx.artifact.edicts, 1, tx) ELSE u

\* index_runes, `if let Some((id, rune)) = etched { self.create_rune_entry(..) }`.
TxCreate(u, tx) ==
  IF u.etched.some
  THEN CHOOSE r \in {[u EXCEPT !.db = c.db, !.runes = c.runes,
                               !.temp = entry_insert(@, u.etched.id,
                                                     c.db.runeEntries[u.etched.id],
                                                     u.etched.id[1])] :
                     c \in {CreateRuneEntry(u.db, u.runes, tx, u.etched.id, u.etched.rune)}} :
         TRUE
  ELSE u

\* The residual step without the cenotaph branch.
TxResidualToOutput(u, tx) ==
  LET vout == DefaultOutput(tx)
      positive == {i \in DOMAIN u.un : u.un[i] > 0}
  IN IF vout # None
     THEN [u EXCEPT !.al[vout] = [id \in (DOMAIN @) \cup positive |->
                                    GetOr0(@, id) + GetOr0(u.un, id)]]
     ELSE [u EXCEPT !.burned = [id \in (DOMAIN @) \cup positive |->
                                  GetOr0(@, id) + GetOr0(u.un, id)]]

\* index_runes, what is left unallocated: burned by a cenotaph (every entry,
\* also one of amount 0), credited to the default output, or burned when there
\* is no output to take it.  The transaction's burned map is added to the
\* block's as it is filled.
TxResidual(u, tx) ==
  LET vout == DefaultOutput(tx)
      positive == {i \in DOMAIN u.un : u.un[i] > 0}
  IN IF tx.artifact.kind = "cenotaph"
     THEN [u EXCEPT !.burned = [id \in (DOMAIN @) \cup (DOMAIN u.un) |->
                                  GetOr0(@, id) + GetOr0(u.un, id)],
                    !.temp = IF positive # {} THEN insert_tx_op(@, tx.txid, "Cenotaph")
                             ELSE @]
     ELSE IF vout # None
     THEN [u EXCEPT !.al[vout] = [id \in (DOMAIN @) \cup positive |->
                                    GetOr0(@, id) + GetOr0(u.un, id)]]
     ELSE [u EXCEPT !.burned = [id \in (DOMAIN @) \cup positive |->
                                  GetOr0(@, id) + GetOr0(u.un, id)],
                    !.temp = IF positive # {} THEN insert_tx_op(@, tx.txid, "Burn")
                             ELSE @]

\* The write-out loop of index_runes over the outputs, in vout order.
RECURSIVE WriteOut(_, _, _, _)
WriteOut(u, tx, height, vout) ==
  IF vout >= Len(tx.output) THEN u
  ELSE
    LET balances == u.al[vout]
        outpoint == OutPoint(tx.txid, vout)
        entry == [confirmed |-> height, spent |-> 0,
                  spk_len |-> tx.output[vout + 1].spk_len,
                  balances |-> SortedBalances(balances)]
    IN IF DOMAIN balances = {} THEN WriteOut(u, tx, height, vout + 1)
       ELSE IF IsOpReturn(tx, vout)
       THEN WriteOut([u EXCEPT !.burned = [id \in (DOMAIN @) \cup (DOMAIN balances) |->
                                             GetOr0(@, id) + GetOr0(balances, id)]],
                     tx, height, vout + 1)
       ELSE WriteOut([u EXCEPT !.db.balances = Put(@, outpoint, entry),
                               !.o2r = Put(@, outpoint,
                                           GetOrEmpty(@, outpoint) \cup DOMAIN balances),
                               !.temp = temp_insert(@, outpoint, balances, height,
                                                    tx.output[vout + 1].spk_len)],
                     tx, height, vout + 1)

\* RuneUpdater::index_runes on the updater u.
IndexRunes(u, height, tx_index, tx) ==
  WriteOut(
    TxResidual(
      TxCreate(
        TxEdicts(
          TxPremine(
            TxEtch(TxMint(Unallocated(u, height, tx), height, tx), height, tx_index, tx),
            tx),
          tx),
        tx),
      tx),
    tx, height, 0)

\* `for (i, tx) in block.txdata.iter().enumerate()`; tx_index = i - 1.
RECURSIVE IndexTxs(_, _, _, _)
IndexTxs(u, height, txdata, i) ==
  IF i > Len(txdata) THEN u
  ELSE IndexTxs(IndexRunes(u, height, i - 1, txdata[i]), height, txdata, i + 1)

\* RuneUpdater::update: [db, ok]; ok is FALSE when a burned rune has no entry
\* (the unwrap panics; the writes made before it stay).
RECURSIVE UpdateFrom(_, _, _, _)
UpdateFrom(db, burned, height, ids) ==
  IF ids = {} THEN [db |-> db, ok |-> TRUE]
  ELSE
    LET id == CHOOSE x \in ids : \A y \in ids : y = x \/ LexLess(x, y)
        db1 == [db EXCEPT !.heightBurned = Put(@, id \o <<height>>, burned[id])]
        db2 == rune_id_to_burned_inc(db1, id)
        db3 == [db2 EXCEPT !.runeEntries[id].burned = db2.idBurned[id]]
    IN IF id \notin DOMAIN db.runeEntries THEN [db |-> db, ok |-> FALSE]
       ELSE UpdateFrom(db3, burned, height, ids \ {id})

Update(u, height) == UpdateFrom(u.db, u.burned, height, DOMAIN u.burned)

\* ------------------------------------------------------ db/mod.rs: the rewind

\* Keys removed by `for k in iterator(Start) { if !pred(k) { break }; delete }`.
ForwardScanWhile(keys, pass) ==
  {k \in keys \cap pass : \A k2 \in keys : LexLess(k2, k) => k2 \in pass}

\* The side-index write that keeps the rows of the current block only.
SideIndexKeepNone(db, height, outpoints) ==
  [db EXCEPT !.sideIndex = [k \in {<<height>> \o o : o \in DOMAIN outpoints} |->
                              outpoints[Tail(k)]]]

\* RunesDB::height_outpoint_to_rune_ids_batch_put_and_del: drops the rows that
\* are REORG_DEPTH or more below `height`, adds the block's rows.
height_outpoint_to_rune_ids_batch_put_and_del(db, height, outpoints) ==
  LET old == ForwardScanWhile(DOMAIN db.sideIndex,
                              {k \in DOMAIN db.sideIndex : height - k[1] >= REORG_DEPTH})
      kept == Del(db.sideIndex, old)
      new == {<<height>> \o o : o \in DOMAIN outpoints}
  IN [db EXCEPT !.sideIndex =
        [k \in (DOMAIN kept) \cup new |->
           IF k \in new THEN outpoints[Tail(k)] ELSE kept[k]]]

\* RunesDB::latest_indexed_height: None when no header is stored.
latest_indexed_height(db) ==
  IF DOMAIN db.headers = {} THEN None
  ELSE CHOOSE h \in DOMAIN db.headers : \A g \in DOMAIN db.headers : g <= h

\* RunesDB::height_to_statistic_count_sum_to_height
height_to_statistic_count_sum_to_height(db, stat, to_height) ==
  SumOver(db.statCount, {k \in DOMAIN db.statCount : k[1] = stat /\ k[2] <= to_height})

\* The height the two *_sum_to_height methods of the per-rune deltas read from
\* a key (rune id block u64, tx u32, height u32, big-endian): the u32 of the
\* key's first four bytes, which are the upper half of the rune id's block.
KeyFirstU32(k) == (k[1] \div 65536) \div 65536

\* RunesDB::rune_id_to_mints_sum_to_height
rune_id_to_mints_sum_to_height(db, id, to_height) ==
  SumOver(db.heightMints,
          {k \in DOMAIN db.heightMints :
             <<k[1], k[2]>> = id /\ KeyFirstU32(k) <= to_height})

\* RunesDB::rune_id_height_to_burned_sum_to_height
rune_id_height_to_burned_sum_to_height(db, id, to_height) ==
  SumOver(db.heightBurned,
          {k \in DOMAIN db.heightBurned :
             <<k[1], k[2]>> = id /\ KeyFirstU32(k) <= to_height})

\* Stage 1 of reorg_to_height: the first write batch.  [db, ok]; ok is FALSE
\* when the stage panics (a side-index row without balance entry, or the
\* 12-byte chunking of an un-spent entry whose length is no multiple of 12),
\* and then nothing is written.
ReorgStage1(db, height) ==
  LET hdrDel == ReverseScanWhile({<<h>> : h \in DOMAIN db.headers},
                                 {<<h>> : h \in {g \in DOMAIN db.headers : g >= height}})
      statDel == ReverseScanWhile(DOMAIN db.statCount,
                         {k \in DOMAIN db.statCount : k[2] >= height})
      \* the per-rune delta keys start with the rune id: k[0..8] is its block
      mintsDel == ReverseScanWhile(DOMAIN db.heightMints,
                         {k \in DOMAIN db.heightMints : k[1] >= height})
      burnedDel == ReverseScanWhile(DOMAIN db.heightBurned,
                         {k \in DOMAIN db.heightBurned : k[1] >= height})
      entryDel == ReverseScanWhile(DOMAIN db.runeEntries,
                         {k \in DOMAIN db.runeEntries : k[1] >= height})
      nameDel == {db.runeEntries[id].rune : id \in entryDel}
      rows == ReverseScanWhile(DOMAIN db.sideIndex,
                         {k \in DOMAIN db.sideIndex : k[1] >= height})
      outpoints == {Tail(k) : k \in rows}
      missing == \E o \in outpoints : o \notin DOMAIN db.balances
      balDel == {o \in outpoints : db.balances[o].confirmed >= height}
      unspent == {o \in outpoints \ balDel : db.balances[o].spent >= height}
      shortChunk == \E o \in unspent : EntryStoreLen(db.balances[o]) % 12 # 0
      kept == Del(db.balances, balDel)
  IN IF missing \/ shortChunk THEN [db |-> db, ok |-> FALSE]
     ELSE [ok |-> TRUE,
           db |-> [db EXCEPT
             !.headers = Del(@, {k[1] : k \in hdrDel}),
             !.statCount = Del(@, statDel),
             !.heightMints = Del(@, mintsDel),
             !.heightBurned = Del(@, burnedDel),
             !.runeEntries = Del(@, entryDel),
             !.runeToId = Del(@, nameDel),
             !.sideIndex = Del(@, rows),
             !.balances = [o \in DOMAIN kept |->
                             IF o \in unspent THEN [kept[o] EXCEPT !.spent = 0]
                             ELSE kept[o]]]]

\* Stage 3 with the entries numbered from 1.
ReorgStage3OneBased(db, height) ==
  LET runes_count == height_to_statistic_count_sum_to_height(db, StatRunes, height - 1)
      reserved_runes_count ==
        height_to_statistic_count_sum_to_height(db, StatReservedRunes, height - 1)
      ids == SortedSeq(DOMAIN db.runeEntries)
      runes_total == Len(ids)
      number == [k \in DOMAIN ids |-> k]
      pos == [id \in DOMAIN db.runeEntries |-> CHOOSE k \in DOMAIN ids : ids[k] = id]
      burned == [id \in DOMAIN db.runeEntries |->
                   rune_id_height_to_burned_sum_to_height(db, id, height)]
      mints == [id \in DOMAIN db.runeEntries |->
                  rune_id_to_mints_sum_to_height(db, id, height)]
  IN IF runes_count # runes_total THEN [db |-> db, ok |-> FALSE]
     ELSE [ok |-> TRUE,
           db |-> [db EXCEPT
             !.statValue = Put(Put(@, StatRunes, runes_count),
                               StatReservedRunes, reserved_runes_count),
             !.idBurned = [id \in (DOMAIN @) \cup (DOMAIN db.runeEntries) |->
                             IF id \in DOMAIN db.runeEntries THEN burned[id] ELSE @[id]],
             !.idMints = [id \in (DOMAIN @) \cup (DOMAIN db.runeEntries) |->
                            IF id \in DOMAIN db.runeEntries THEN mints[id] ELSE @[id]],
             !.runeEntries = [id \in DOMAIN @ |->
                                [@[id] EXCEPT !.burned = burned[id],
                                              !.mints = mints[id],
                                              !.number = number[pos[id]]]]]]

\* Stage 3 of reorg_to_height: the second write batch, read from the store
\* left by stage 1.  [db, ok]; ok is FALSE when the cross-check of the number
\* of rune entries panics, and then the batch is not written.
ReorgStage3(db, height) ==
  LET runes_count == height_to_statistic_count_sum_to_height(db, StatRunes, height - 1)
      reserved_runes_count ==
        height_to_statistic_count_sum_to_height(db, StatReservedRunes, height - 1)
      ids == SortedSeq(DOMAIN db.runeEntries)
      runes_total == Len(ids)
      number == [k \in DOMAIN ids |-> k - 1]
      pos == [id \in DOMAIN db.runeEntries |-> CHOOSE k \in DOMAIN ids : ids[k] = id]
      burned == [id \in DOMAIN db.runeEntries |->
                   rune_id_height_to_burned_sum_to_height(db, id, height)]
      mints == [id \in DOMAIN db.runeEntries |->
                  rune_id_to_mints_sum_to_height(db, id, height)]
  IN IF runes_count # runes_total THEN [db |-> db, ok |-> FALSE]
     ELSE [ok |-> TRUE,
           db |-> [db EXCEPT
             !.statValue = Put(Put(@, StatRunes, runes_count),
                               StatReservedRunes, reserved_runes_count),
             !.idBurned = [id \in (DOMAIN @) \cup (DOMAIN db.runeEntries) |->
                             IF id \in DOMAIN db.runeEntries THEN burned[id] ELSE @[id]],
             !.idMints = [id \in (DOMAIN @) \cup (DOMAIN db.runeEntries) |->
                            IF id \in DOMAIN db.runeEntries THEN mints[id] ELSE @[id]],
             !.runeEntries = [id \in DOMAIN @ |->
                                [@[id] EXCEPT !.burned = burned[id],
                                              !.mints = mints[id],
                                              !.number = number[pos[id]]]]]]

\* RunesDB::reorg_to_height (FastStore part): [db, ok].
ReorgToHeight(db, height) ==
  LET s1 == ReorgStage1(db, height)
  IN IF ~s1.ok THEN s1 ELSE ReorgStage3(s1.db, height)

\* ------------------------------------------- db/mod.rs: the RelStore's tables

\* The table rune_balance is a bag of rows projected on
\* <<outpoint (txid, vout), rune_id, rune_amount, height, spent_height,
\* address, spent_txid>>: a function from the row to the number of times it is
\* stored (the table's key is an auto-increment id, so equal rows can be
\* stored more than once).  The table rune_entry maps rune_id, its primary
\* key, to the columns number, mints, burned, holders, transactions, height.
EmptyRel == [rune_balance |-> EmptyMap, rune_entry |-> EmptyMap]

\* `UPDATE rune_balance SET spent_height = ?, spent_txid = ? ... WHERE txid = ?
\* AND vout = ? AND rune_id = ?` of to_sqlite on one row, for the staged updates.
RelSpend(row, updates) ==
  IF <<row[1], row[2]>> \in DOMAIN updates
  THEN [row EXCEPT ![5] = updates[<<row[1], row[2]>>].spent_height,
                   ![7] = updates[<<row[1], row[2]>>].spent_txid]
  ELSE row

\* The rows staged for insert.
InsertRows(temp) ==
  {<<k[1], k[2], temp.inserts[k].rune_amount, temp.inserts[k].height,
     temp.inserts[k].spent_height, temp.inserts[k].address,
     temp.inserts[k].spent_txid>> : k \in DOMAIN temp.inserts}

\* The table after the INSERT of to_sqlite.
RelInsert(rel, rows) ==
  [row \in (DOMAIN rel) \cup rows |-> GetOr0(rel, row) + (IF row \in rows THEN 1 ELSE 0)]

\* The table after the UPDATEs of to_sqlite.
RelUpdate(rel, updates) ==
  [row \in {RelSpend(r, updates) : r \in DOMAIN rel} |->
     SumOver(rel, {r \in DOMAIN rel : RelSpend(r, updates) = row})]

\* `SELECT rune_id, COUNT(DISTINCT address) FROM rune_balance WHERE rune_id in
\* (..) AND spent_height = 0 GROUP BY rune_id` for one id; no row reads as 0.
Holders(bal, id) ==
  Cardinality({r[6] : r \in {x \in DOMAIN bal : x[2] = id /\ x[5] = 0}})

\* `SELECT rune_id, COUNT(DISTINCT _txid) FROM (SELECT rune_id, txid .. UNION
\* ALL SELECT rune_id, spent_txid .. WHERE spent_height > 0) GROUP BY rune_id`
\* for one id; the txid of a row is the first three fields of its outpoint.
Transactions(bal, id) ==
  Cardinality({SubSeq(r[1], 1, 3) : r \in {x \in DOMAIN bal : x[2] = id}}
              \cup {r[7] : r \in {x \in DOMAIN bal : x[2] = id /\ x[5] > 0}})

\* to_sqlite after the transaction on rune_balance has left the table bal
\* (db/mod.rs 818-951): need_update_runes, then one transaction with the
\* INSERT of the staged entries, the UPDATE of the staged updates and the
\* UPDATE of holders and transactions for the other ids of need_update_runes.
\* An INSERT of a stored rune_id fails the transaction.
RelEntries(bal, entries, temp) ==
  LET need == {k[2] : k \in (DOMAIN temp.inserts) \cup (DOMAIN temp.updates)}
              \cup (DOMAIN temp.rune_updates)
              \cup {id \in DOMAIN temp.rune_inserts :
                      \/ temp.rune_inserts[id].mints > 0
                      \/ temp.rune_inserts[id].premine > 0
                      \/ temp.rune_inserts[id].burned > 0}
  IN IF (DOMAIN temp.rune_inserts) \cap (DOMAIN entries) # {} THEN entries
     ELSE [id \in (DOMAIN entries) \cup (DOMAIN temp.rune_inserts) |->
             IF id \in DOMAIN temp.rune_inserts
             THEN [number |-> temp.rune_inserts[id].number,
                   mints |-> temp.rune_inserts[id].mints,
                   burned |-> temp.rune_inserts[id].burned,
                   holders |-> IF id \in need THEN Holders(bal, id) ELSE 0,
                   transactions |-> IF id \in need THEN Transactions(bal, id) ELSE 0,
                   height |-> temp.rune_inserts[id].height]
             ELSE IF id \in DOMAIN temp.rune_updates
             THEN [entries[id] EXCEPT !.mints = temp.rune_updates[id].mints,
                                      !.burned = temp.rune_updates[id].burned,
                                      !.holders = Holders(bal, id),
                                      !.transactions = Transactions(bal, id)]
             ELSE IF id \in need
             THEN [entries[id] EXCEPT !.holders = Holders(bal, id),
                                      !.transactions = Transactions(bal, id)]
             ELSE entries[id]]

\* RunesDB::to_sqlite: one transaction that inserts the staged rune_balance
\* rows and then applies the staged updates, and a second one on rune_entry.
to_sqlite(rel, temp) ==
  CHOOSE r \in {[rune_balance |-> bal,
                 rune_entry |-> RelEntries(bal, rel.rune_entry, temp)] :
                bal \in {RelUpdate(RelInsert(rel.rune_balance, InsertRows(temp)),
                                   temp.updates)}} : TRUE

\* `UPDATE rune_balance SET spent_height = 0, spent_txid = null ... WHERE
\* spent_height >= ?`
RelUnspend(row, height) ==
  IF row[5] >= height THEN [row EXCEPT ![5] = 0, ![7] = None] ELSE row

\* Stage 2 of reorg_to_height: `DELETE FROM rune_balance WHERE height >= ?`,
\* the UPDATE above, and `DELETE FROM rune_entry WHERE height >= ?`.
ReorgStage2(rel, height) ==
  [rune_balance |->
     [row \in {RelUnspend(r, height) :
                 r \in {x \in DOMAIN rel.rune_balance : x[4] < height}} |->
        SumOver(rel.rune_balance,
                {r \in DOMAIN rel.rune_balance :
                   r[4] < height /\ RelUnspend(r, height) = row})],
   rune_entry |->
     [id \in {x \in DOMAIN rel.rune_entry : rel.rune_entry[x].height < height} |->
        rel.rune_entry[id]]]

\* Stage 4 of reorg_to_height on the store d1 left by stage 1 and the store d3
\* left by stage 3: changed_runes holds the entries whose burned, mints or
\* number stage 3 has changed (has_changed), and their rows get mints, burned,
\* holders and transactions.  changed_rune_ids adds no stored id: its members
\* are read from the 12-byte chunks of a whole stored balance entry, which
\* begins with the two heights, the value and the script.
ReorgStage4(rel, d1, d3) ==
  [rel EXCEPT !.rune_entry =
     [id \in DOMAIN @ |->
        IF id \in DOMAIN d1.runeEntries /\ d3.runeEntries[id] # d1.runeEntries[id]
        THEN [@[id] EXCEPT !.mints = d3.runeEntries[id].mints,
                           !.burned = d3.runeEntries[id].burned,
                           !.holders = Holders(rel.rune_balance, id),
                           !.transactions = Transactions(rel.rune_balance, id)]
        ELSE @[id]]]

\* RunesDB::reorg_to_height, RelStore part: stage 2 runs once stage 1 is
\* written, and stays when stage 3 panics; stage 4 follows stage 3.
RelReorgToHeight(d, rel, height) ==
  CHOOSE x \in
    {IF ~s1.ok THEN rel
     ELSE CHOOSE y \in {IF ~s3.ok THEN ReorgStage2(rel, height)
                        ELSE ReorgStage4(ReorgStage2(rel, height), s1.db, s3.db) :
                        s3 \in {ReorgStage3(s1.db, height)}} : TRUE :
     s1 \in {ReorgStage1(d, height)}} : TRUE

\* ------------------------------------------------------- the bitcoin node

\* A block hash is the pair (height, branch) of the block: two blocks of the
\* node have the same hash only if they are the same block.
BlockHash(h, e) == <<h, e>>

Block(h, e, prev, txdata) == [hash |-> BlockHash(h, e), prev |-> prev, txdata |-> txdata]

\* The node's best chain is kept from first_rune_height on.
TipHeight(c) == first_rune_height + Len(c) - 1

BlockAt(c, h) == c[h - first_rune_height + 1]

PrevHashAt(c, h) ==
  IF h = first_rune_height THEN BlockHash(h - 1, 0) ELSE BlockAt(c, h - 1).hash

\* ------------------------------------------------- what the node can mine

\* The transactions, the outpoints created and the outpoints spent in a chain.
ChainTxs(c) == UNION {Range(c[k].txdata) : k \in DOMAIN c}

ChainOutpoints(c) ==
  UNION {{OutPoint(tx.txid, v) : v \in {w \in Vouts(tx) : ~IsOpReturn(tx, w)}} :
         tx \in ChainTxs(c)}

ChainSpent(c) == UNION {{tx.input[i].prev : i \in DOMAIN tx.input} : tx \in ChainTxs(c)}

UnspentOutpoints(c) == ChainOutpoints(c) \ ChainSpent(c)

\* The ids an etching in the chain may have been given.
ChainEtchingIds(c) ==
  {<<first_rune_height + k - 1, i - 1>> : k \in DOMAIN c, i \in 1 .. MaxTxs} \cap
  UNION {{<<first_rune_height + k - 1, i - 1>> :
            i \in {j \in DOMAIN c[k].txdata : c[k].txdata[j].artifact.etching.some}} :
         k \in DOMAIN c}

\* An input that spends an output no rune was ever credited to.
PlainInput == TxIn(<<0, 0, 0, 0>>, None, FALSE, 0)

\* Names an etching may ask for: a valid one, or none (a reserved name is given).
EtchNames == {2, None}

\* Script lengths of the output an etching pays to (p2wpkh 22, p2pkh 25).
SpkLens == {22, 25}

\* An etching of `name` with premine 2 and open terms (amount 1, cap 2); its
\* input reveals a commitment to the name made in a taproot output
\* COMMIT_CONFIRMATIONS - 1 blocks before.
EtchTx(txid, h, name, spk) ==
  Tx(txid, <<TxIn(<<0, 0, 0, 0>>, name, TRUE, h - COMMIT_CONFIRMATIONS + 1)>>,
     <<TxOut(FALSE, spk)>>,
     Runestone(NoId, Etching(name, 2, Terms(1, 2, <<None, None>>, <<None, None>>)),
               <<>>, None))

MintTx(txid, id) ==
  Tx(txid, <<PlainInput>>, <<TxOut(FALSE, 25)>>, Runestone(id, NoEtching, <<>>, None))

\* Spends o to a single ordinary output, without a runestone.
TransferTx(txid, o) ==
  Tx(txid, <<TxIn(o, None, FALSE, 0)>>, <<TxOut(FALSE, 25)>>, NoArtifact)

\* Spends o in a transaction whose runestone is a cenotaph.
BurnTx(txid, o) ==
  Tx(txid, <<TxIn(o, None, FALSE, 0)>>, <<TxOut(FALSE, 25)>>, Cenotaph(NoId, NoEtching))

\* The transactions that may come next in a block at height h of branch e,
\* after the chain c and the transactions txs already in the block.
TxChoices(c, h, txid) ==
  {EtchTx(txid, h, name, spk) : name \in EtchNames, spk \in SpkLens}
  \cup {MintTx(txid, id) : id \in ChainEtchingIds(c)}
  \cup {TransferTx(txid, o) : o \in UnspentOutpoints(c)}
  \cup {BurnTx(txid, o) : o \in UnspentOutpoints(c)}

RECURSIVE TxDataChoices(_, _, _, _)
TxDataChoices(c, h, e, n) ==
  IF n = 0 THEN {<<>>}
  ELSE LET shorter == TxDataChoices(c, h, e, n - 1)
       IN shorter \cup
          UNION {{txs \o <<t>> :
                    t \in TxChoices(c \o <<Block(h, e, <<0, 0>>, txs)>>, h,
                                    <<h, e, Len(txs)>>)} :
                 txs \in {x \in shorter : Len(x) = n - 1}}

\* What the node mines: blocks below FirstContentHeight and above
\* MaxContentHeight are empty.
BlockChoices(c, h, e) ==
  IF h < FirstContentHeight \/ h > MaxContentHeight THEN {<<>>}
  ELSE TxDataChoices(c, h, e, MaxTxs)

\* What a direct caller hands to the store: blocks above MaxContentHeight are
\* empty.
ApiBlockChoices(c, h, e) ==
  IF h > MaxContentHeight THEN {<<>>} ELSE TxDataChoices(c, h, e, MaxTxs)

\* ------------------------------------------------------- main.rs: one block

\* The body of the main loop for a fetched block, after any rewind
\* (main.rs 181-230, FastStore part): [db, ok]; ok is FALSE when
\* RuneUpdater::update panics.
CommitBlock(d, block, block_height) ==
  LET runes_num_before == GetOr0(d.statValue, StatRunes)
      u0 == [db |-> d, burned |-> EmptyMap, runes |-> runes_num_before, o2r |-> EmptyMap,
             temp |-> EmptyTemp]
      u1 == IndexTxs(u0, block_height, block.txdata, 1)
      upd == Update(u1, block_height)
      changed_count == u1.runes - runes_num_before
      d1 == IF changed_count > 0
            THEN [upd.db EXCEPT !.statCount = Put(@, <<StatRunes, block_height>>, changed_count)]
            ELSE upd.db
      d2 == [d1 EXCEPT !.headers =
               Put(@, block_height, [hash |-> block.hash, prev |-> block.prev])]
      d3 == height_outpoint_to_rune_ids_batch_put_and_del(d2, block_height, u1.o2r)
  IN IF ~upd.ok THEN [db |-> upd.db, ok |-> FALSE, temp |-> u1.temp]
     ELSE [db |-> d3, ok |-> TRUE, temp |-> u1.temp]

\* The body of the main loop on the RelStore: to_sqlite runs after the
\* FastStore writes of the block (main.rs 218), not when update() panicked.
RelCommitBlock(d, rel, block, block_height) ==
  CHOOSE x \in {IF r.ok THEN to_sqlite(rel, r.temp) ELSE rel :
                r \in {CommitBlock(d, block, block_height)}} : TRUE

\* The backward walk of the reorg check (main.rs 124-164) for the block at
\* height h whose header names bitcoind_prev_blockhash:
\* [reset |-> FALSE] when the block is accepted, [reset |-> TRUE, to |-> height]
\* when index_height and reorg_height are set to `to`.
RECURSIVE ReorgCheck(_, _, _, _, _)
ReorgCheck(d, c, bitcoind_prev_blockhash, prev_height, first_check) ==
  IF prev_height > first_rune_height
  THEN
    IF prev_height \notin DOMAIN d.headers
    THEN LET sh == IF latest_indexed_height(d) = None THEN first_rune_height
                   ELSE latest_indexed_height(d)
         IN [reset |-> TRUE, to |-> Max(sh, first_rune_height)]
    ELSE
      LET v == d.headers[prev_height] IN
      IF first_check
      THEN IF v.hash = bitcoind_prev_blockhash
           THEN [reset |-> FALSE, to |-> 0]
           ELSE ReorgCheck(d, c, bitcoind_prev_blockhash,
                           Max(first_rune_height, prev_height - 1), FALSE)
      ELSE IF BlockAt(c, prev_height).hash = v.hash
           THEN [reset |-> TRUE, to |-> Max(first_rune_height, prev_height + 1)]
           ELSE ReorgCheck(d, c, bitcoind_prev_blockhash,
                           Max(first_rune_height, prev_height - 1), FALSE)
  ELSE [reset |-> FALSE, to |-> 0]

\* ------------------------------------------------------------ reference run

\* The store after committing blocks[i..] on d, the block blocks[k] at height
\* first_rune_height + k - 1.
RECURSIVE RunFrom(_, _, _)
RunFrom(d, blocks, i) ==
  IF i > Len(blocks) THEN d
  ELSE RunFrom(CommitBlock(d, blocks[i], first_rune_height + i - 1).db, blocks, i + 1)

\* The store of a run that processed exactly `blocks`, from an empty store.
RunOf(blocks) == RunFrom(EmptyDb, blocks, 1)

\* The RelStore of the same run.
RECURSIVE RelRunFrom(_, _, _, _)
RelRunFrom(d, rel, blocks, i) ==
  IF i > Len(blocks) THEN rel
  ELSE RelRunFrom(CommitBlock(d, blocks[i], first_rune_height + i - 1).db,
                  RelCommitBlock(d, rel, blocks[i], first_rune_height + i - 1),
                  blocks, i + 1)

RelRunOf(blocks) == RelRunFrom(EmptyDb, EmptyRel, blocks, 1)

\* The rows of a counter column family as a reader sees them: a missing row
\* reads as 0 (unwrap_or_default).
NonZero(m) == [k \in {x \in DOMAIN m : m[x] # 0} |-> m[k]]

\* The contents of the store that depend on the indexed blocks: everything but
\* Statistic::LatestHeight, which records the node's tip.
View(d) ==
  [d EXCEPT !.statValue = NonZero(Del(@, {StatLatestHeight})),
            !.idMints = NonZero(@),
            !.idBurned = NonZero(@)]

\* ------------------------------------------------------------ state machine

VARIABLES
  chain,         \* the node's best chain from first_rune_height on: Seq of blocks
  epoch,         \* the number of reorganisations of the node so far
  db,            \* the FastStore
  index_height,  \* main: the height of the next block to index
  reorg_height,  \* main: the pending rewind height, 0 when none
  pc,            \* main loop: "fetch", "got" (a block was fetched), "index"
                 \* (a rewind was done for it), "in block" (inside the block
                 \* body), "halted" (the process panicked or main returned an
                 \* error), "stopped" (the loop was left after the signal)
  cur,           \* the fetched (block, block_height, latest_height)
  indexed,       \* history: the committed blocks whose effects are not rewound
  last,          \* history: the last store operation and the store before it
  relstore,      \* the RelStore's tables rune_balance and rune_entry
  shutdown       \* main: the flag the Ctrl-C handler sets

vars ==
  <<chain, epoch, db, index_height, reorg_height, pc, cur, indexed, last, relstore,
    shutdown>>

NoCur == [block |-> Block(0, 0, <<0, 0>>, <<>>), height |-> 0, latest |-> 0]

NoLast == [op |-> "none", height |-> 0, before |-> EmptyDb, ok |-> TRUE]

\* A fresh data directory on a network other than mainnet; the node's tip is
\* the block below first_rune_height.
Init ==
  /\ chain = <<>>
  /\ epoch = 0
  /\ db = EmptyDb
  /\ index_height = first_rune_height
  /\ reorg_height = 0
  /\ pc = "fetch"
  /\ cur = NoCur
  /\ indexed = <<>>
  /\ last = NoLast
  /\ relstore = EmptyRel
  /\ shutdown = FALSE

\* The node extends its best chain by one block.
Mine ==
  /\ TipHeight(chain) < MaxHeight
  /\ TipHeight(chain) < index_height + MaxLead
  /\ \E txdata \in BlockChoices(chain, TipHeight(chain) + 1, epoch) :
       chain' = Append(chain, Block(TipHeight(chain) + 1, epoch,
                                    PrevHashAt(chain, TipHeight(chain) + 1), txdata))
  /\ UNCHANGED <<epoch, db, index_height, reorg_height, pc, cur, indexed, last, relstore>>
  /\ UNCHANGED shutdown

\* The node replaces its blocks from height f on by one block of a new branch;
\* the block at first_rune_height is final.
Reorg ==
  /\ epoch < MaxReorgs
  /\ \E f \in (first_rune_height + 1) .. TipHeight(chain) :
       LET kept == SubSeq(chain, 1, f - first_rune_height) IN
       \E txdata \in BlockChoices(kept, f, epoch + 1) :
         chain' = Append(kept, Block(f, epoch + 1, PrevHashAt(chain, f), txdata))
  /\ epoch' = epoch + 1
  /\ UNCHANGED <<db, index_height, reorg_height, pc, cur, indexed, last, relstore>>
  /\ UNCHANGED shutdown

\* main.rs 112-165: the closure given to with_retry, its calls to the node
\* answered from one best chain.
Fetch ==
  /\ pc = "fetch"
  /\ LET latest_height == TipHeight(chain)
         d1 == [db EXCEPT !.statValue = Put(@, StatLatestHeight, latest_height)]
         h == index_height
     IN /\ db' = d1
        /\ IF latest_height < h
           THEN UNCHANGED <<index_height, reorg_height, pc, cur>>
           ELSE LET block == BlockAt(chain, h)
                    r == ReorgCheck(d1, chain, block.prev, h - 1, TRUE)
                IN IF r.reset
                   THEN /\ index_height' = r.to
                        /\ reorg_height' = r.to
                        /\ UNCHANGED <<pc, cur>>
                   ELSE /\ pc' = "got"
                        /\ cur' = [block |-> block, height |-> h, latest |-> latest_height]
                        /\ UNCHANGED <<index_height, reorg_height>>
  /\ UNCHANGED <<chain, epoch, indexed, last, relstore>>
  /\ UNCHANGED shutdown

\* main.rs 168-180: a fetched block while a rewind is pending.
Rewind ==
  /\ pc = "got"
  /\ reorg_height # 0
  /\ IF cur.height > reorg_height
     THEN /\ pc' = "fetch"
          /\ UNCHANGED <<db, reorg_height, indexed, last, relstore>>
     ELSE LET r == ReorgToHeight(db, reorg_height)
          IN /\ db' = r.db
             /\ relstore' = RelReorgToHeight(db, relstore, reorg_height)
             /\ last' = [op |-> "reorg", height |-> reorg_height, before |-> db,
                         ok |-> r.ok]
             /\ indexed' = IF ReorgStage1(db, reorg_height).ok
                           THEN SubSeq(indexed, 1,
                                       Min(Len(indexed), reorg_height - first_rune_height))
                           ELSE indexed
             /\ IF r.ok
                THEN pc' = "index" /\ reorg_height' = 0
                ELSE pc' = "halted" /\ UNCHANGED reorg_height
  /\ UNCHANGED <<chain, epoch, index_height, cur>>
  /\ UNCHANGED shutdown

\* main.rs 181-230: the fetched block is indexed and committed.
IndexBlock ==
  /\ \/ pc = "got" /\ reorg_height = 0
     \/ pc = "index"
  /\ LET r == CommitBlock(db, cur.block, cur.height)
     IN /\ db' = r.db
        /\ relstore' = RelCommitBlock(db, relstore, cur.block, cur.height)
        /\ last' = [op |-> "commit", height |-> cur.height, before |-> db, ok |-> r.ok]
        /\ IF r.ok
           THEN /\ pc' = "fetch"
                /\ index_height' = cur.height + 1
                /\ indexed' = Append(indexed, cur.block)
           ELSE /\ pc' = "halted"
                /\ UNCHANGED <<index_height, indexed>>
  /\ UNCHANGED <<chain, epoch, reorg_height, cur>>
  /\ UNCHANGED shutdown

Next == Mine \/ Reorg \/ Fetch \/ Rewind \/ IndexBlock

Spec == Init /\ [][Next]_vars

\* --------------------------------------- the main loop after a long branch

\* The indexer has processed the node's chain of empty blocks up to a tip
\* that is REORG_DEPTH or more above first_rune_height: of an empty block the
\* block body stores the header and nothing else (main.rs 203-218).
InitDeep ==
  /\ \E tip \in (first_rune_height + REORG_DEPTH) .. MaxDeepTip :
       /\ chain = [k \in 1 .. (tip - first_rune_height + 1) |->
                    Block(first_rune_height + k - 1, 0,
                          BlockHash(first_rune_height + k - 2, 0), <<>>)]
       /\ index_height = tip + 1
       /\ db = [EmptyDb EXCEPT !.headers =
                  [h \in first_rune_height .. tip |->
                     [hash |-> BlockHash(h, 0), prev |-> BlockHash(h - 1, 0)]]]
  /\ epoch = 0
  /\ reorg_height = 0
  /\ pc = "fetch"
  /\ cur = NoCur
  /\ indexed = chain
  /\ last = NoLast
  /\ relstore = EmptyRel
  /\ shutdown = FALSE

\* The node replaces its blocks from height f on by a branch of empty blocks
\* that is one block longer than the branch it replaces.
ReorgLonger ==
  /\ epoch < MaxReorgs
  /\ \E f \in (first_rune_height + 1) .. TipHeight(chain) :
       chain' = [k \in 1 .. (Len(chain) + 1) |->
                   IF k <= f - first_rune_height THEN chain[k]
                   ELSE Block(first_rune_height + k - 1, epoch + 1,
                              IF first_rune_height + k - 1 = f
                              THEN PrevHashAt(chain, f)
                              ELSE BlockHash(first_rune_height + k - 2, epoch + 1),
                              <<>>)]
  /\ epoch' = epoch + 1
  /\ UNCHANGED <<db, index_height, reorg_height, pc, cur, indexed, last, relstore>>
  /\ UNCHANGED shutdown

\* The main loop keeps running: whenever it can fetch, rewind or index, it
\* does (main.rs 101: `loop`); the node owes no step.
FairDeep ==
  /\ InitDeep
  /\ [][ReorgLonger \/ Fetch \/ Rewind \/ IndexBlock]_vars
  /\ WF_vars(Fetch) /\ WF_vars(Rewind) /\ WF_vars(IndexBlock)

\* ------------------------------------------- the store, driven block by block

\* The block-processing body of the main loop and RunesDB::reorg_to_height
\* called directly: blocks in height order, a rewind to
\* any height up to the tip, then the same blocks again and new ones after.
\* chain holds every block handed over so far, epoch counts the rewinds.
ApiIndexBlock ==
  /\ pc = "fetch"
  /\ index_height <= MaxApiHeight
  /\ \E block \in
        (IF index_height <= TipHeight(chain)
         THEN {BlockAt(chain, index_height)}
         ELSE {Block(index_height, epoch, PrevHashAt(chain, index_height), txdata) :
                 txdata \in ApiBlockChoices(chain, index_height, epoch)}) :
       LET r == CommitBlock(db, block, index_height)
       IN /\ db' = r.db
          /\ relstore' = RelCommitBlock(db, relstore, block, index_height)
          /\ last' = [op |-> "commit", height |-> index_height, before |-> db,
                      ok |-> r.ok]
          /\ chain' = IF index_height <= TipHeight(chain) THEN chain
                      ELSE Append(chain, block)
          /\ IF r.ok
             THEN /\ index_height' = index_height + 1
                  /\ indexed' = Append(indexed, block)
                  /\ pc' = "fetch"
             ELSE /\ pc' = "halted"
                  /\ UNCHANGED <<index_height, indexed>>
  /\ UNCHANGED <<epoch, reorg_height, cur>>
  /\ UNCHANGED shutdown

ApiRewind ==
  /\ pc = "fetch"
  /\ epoch < MaxReorgs
  /\ \E R \in first_rune_height .. (index_height - 1) :
       LET r == ReorgToHeight(db, R)
           wrote == ReorgStage1(db, R).ok
       IN /\ db' = r.db
          /\ relstore' = RelReorgToHeight(db, relstore, R)
          /\ last' = [op |-> "reorg", height |-> R, before |-> db, ok |-> r.ok]
          /\ indexed' = IF wrote THEN SubSeq(indexed, 1, R - first_rune_height)
                        ELSE indexed
          /\ IF r.ok
             THEN index_height' = R /\ pc' = "fetch"
             ELSE pc' = "halted" /\ UNCHANGED index_height
  /\ epoch' = epoch + 1
  /\ UNCHANGED <<chain, reorg_height, cur>>
  /\ UNCHANGED shutdown

NextApi == ApiIndexBlock \/ ApiRewind

SpecApi == Init /\ [][NextApi]_vars

\* ------------------------------------------------------ main.rs: on mainnet

\* The rune main creates at every start on mainnet when its entry is missing:
\* id 1:0, the name Rune(2055900680524219742) on the scaled name space, mint
\* window from SUBSIDY_HALVING_INTERVAL * 4 (the first rune height of mainnet)
\* to SUBSIDY_HALVING_INTERVAL * 5 (GenesisEnd, above every height here) and
\* cap u128::MAX (GenesisCap, above every count here).
GenesisId == <<1, 0>>
GenesisRune == 7
GenesisEnd == 100
GenesisCap == 1000

\* main.rs 63-94: RUNE_TO_RUNE_ID, the (Runes, 1) count and the entry are
\* written; STATISTIC_TO_VALUE is not.
Bootstrap(d) ==
  IF GenesisId \in DOMAIN d.runeEntries THEN d
  ELSE [height_to_statistic_count_inc(d, StatRunes, 1) EXCEPT
          !.runeToId = Put(@, GenesisRune, GenesisId),
          !.runeEntries =
            Put(@, GenesisId,
                [block |-> 1, burned |-> 0, etching |-> <<0, 0, 0>>,
                 terms |-> Terms(1, GenesisCap, <<first_rune_height, GenesisEnd>>,
                                 <<None, None>>),
                 mints |-> 0, number |-> 0, premine |-> 0, rune |-> GenesisRune])]

\* The height main starts from (main.rs 55).
started_height(d) ==
  IF latest_indexed_height(d) = None THEN first_rune_height
  ELSE latest_indexed_height(d) + 1

\* A fresh data directory on mainnet, after the first start.
InitMainnet ==
  /\ chain = <<>>
  /\ epoch = 0
  /\ db = Bootstrap(EmptyDb)
  /\ index_height = first_rune_height
  /\ reorg_height = 0
  /\ pc = "fetch"
  /\ cur = NoCur
  /\ indexed = <<>>
  /\ last = [op |-> "start", height |-> first_rune_height, before |-> EmptyDb, ok |-> TRUE]
  /\ relstore = EmptyRel
  /\ shutdown = FALSE

\* The process is started again between two blocks (main.rs 40-98).
Restart ==
  /\ pc = "fetch"
  /\ db' = Bootstrap(db)
  /\ index_height' = started_height(db)
  /\ last' = [op |-> "start", height |-> started_height(db), before |-> db, ok |-> TRUE]
  /\ UNCHANGED <<chain, epoch, reorg_height, pc, cur, indexed, relstore, shutdown>>

\* Blocks that mint the rune 1:0 besides those of ApiBlockChoices.
MainnetIndexBlock ==
  /\ pc = "fetch"
  /\ index_height <= MaxMainnetHeight
  /\ \E block \in
        (IF index_height <= TipHeight(chain)
         THEN {BlockAt(chain, index_height)}
         ELSE {Block(index_height, epoch, PrevHashAt(chain, index_height), txdata) :
                 txdata \in ApiBlockChoices(chain, index_height, epoch)
                            \cup {<<MintTx(<<index_height, epoch, 0>>, GenesisId)>>}}) :
       \E r \in {CommitBlock(db, block, index_height)} :
          /\ db' = r.db
          /\ relstore' = (IF r.ok THEN to_sqlite(relstore, r.temp) ELSE relstore)
          /\ last' = [op |-> "commit", height |-> index_height, before |-> db,
                      ok |-> r.ok]
          /\ chain' = IF index_height <= TipHeight(chain) THEN chain
                      ELSE Append(chain, block)
          /\ IF r.ok
             THEN /\ index_height' = index_height + 1
                  /\ indexed' = Append(indexed, block)
                  /\ pc' = "fetch"
             ELSE /\ pc' = "halted"
                  /\ UNCHANGED <<index_height, indexed>>
  /\ UNCHANGED <<epoch, reorg_height, cur>>
  /\ UNCHANGED shutdown

SpecMainnet == InitMainnet /\ [][Restart \/ MainnetIndexBlock \/ ApiRewind]_vars

\* ------------------------------------- a process stop in the middle of a block

\* The RuneUpdater the main loop builds for a block (main.rs 182-202).
NewUpdater(d) ==
  [db |-> d, burned |-> EmptyMap, runes |-> GetOr0(d.statValue, StatRunes), o2r |-> EmptyMap,
   temp |-> EmptyTemp]

\* The updater after index_runes has run on tx up to a point between two of
\* its store writes: 1 after unallocated() marked the inputs spent, 2 after
\* mint(), 3 after etched(), 4 after create_rune_entry(); 0 is before the
\* transaction.
PartialTx(u, height, tx_index, tx, stage) ==
  IF stage = 0 THEN u
  ELSE IF stage = 1 THEN Unallocated(u, height, tx)
  ELSE IF stage = 2 THEN TxMint(Unallocated(u, height, tx), height, tx)
  ELSE IF stage = 3
  THEN TxEtch(TxMint(Unallocated(u, height, tx), height, tx), height, tx_index, tx)
  ELSE TxCreate(
         TxEdicts(
           TxPremine(
             TxEtch(TxMint(Unallocated(u, height, tx), height, tx), height, tx_index, tx),
             tx),
           tx),
         tx)

\* The store after the writes that follow the transactions of a block, up to a
\* point: 0 none, 1 update(), 2 the (Runes, height) count, 3 the block header,
\* 4 the side index (all FastStore writes; to_sqlite comes next).
BlockTail(u, runes_num_before, block, block_height, stage) ==
  IF stage = 0 THEN u.db
  ELSE IF stage = 1 \/ u.runes - runes_num_before <= 0
  THEN IF stage <= 2 THEN Update(u, block_height).db
       ELSE IF stage = 3
       THEN [Update(u, block_height).db EXCEPT !.headers =
               Put(@, block_height, [hash |-> block.hash, prev |-> block.prev])]
       ELSE height_outpoint_to_rune_ids_batch_put_and_del(
              [Update(u, block_height).db EXCEPT !.headers =
                 Put(@, block_height, [hash |-> block.hash, prev |-> block.prev])],
              block_height, u.o2r)
  ELSE IF stage = 2
  THEN [Update(u, block_height).db EXCEPT
          !.statCount = Put(@, <<StatRunes, block_height>>, u.runes - runes_num_before)]
  ELSE IF stage = 3
  THEN [Update(u, block_height).db EXCEPT
          !.statCount = Put(@, <<StatRunes, block_height>>, u.runes - runes_num_before),
          !.headers = Put(@, block_height, [hash |-> block.hash, prev |-> block.prev])]
  ELSE height_outpoint_to_rune_ids_batch_put_and_del(
         [Update(u, block_height).db EXCEPT
            !.statCount = Put(@, <<StatRunes, block_height>>, u.runes - runes_num_before),
            !.headers = Put(@, block_height, [hash |-> block.hash, prev |-> block.prev])],
         block_height, u.o2r)

\* The store when the process stops in the main loop's block body (main.rs
\* 181-218) after k transactions of the block and `stage` further steps: of
\* the next transaction when there is one, else of the writes after the loop.
PartialBlock(d, block, block_height, k, stage) ==
  IF k < Len(block.txdata)
  THEN PartialTx(IndexTxs(NewUpdater(d), block_height, SubSeq(block.txdata, 1, k), 1),
                 block_height, k, block.txdata[k + 1], stage).db
  ELSE BlockTail(IndexTxs(NewUpdater(d), block_height, block.txdata, 1),
                 GetOr0(d.statValue, StatRunes), block, block_height, stage)

\* The block at index_height is processed to the end (epoch counts the stops).
CrashIndexBlock ==
  /\ index_height <= MaxCrashHeight
  /\ ApiIndexBlock

\* The process stops while it works on the block at index_height -- before
\* to_sqlite ("crash"), or because to_sqlite returns an error after every
\* FastStore write of the block ("to_sqlite failed") -- and is started again
\* on the same data directory.
Crash ==
  /\ pc = "fetch"
  /\ epoch < MaxCrashes
  /\ index_height <= MaxCrashHeight
  /\ \E block \in
        (IF index_height <= TipHeight(chain)
         THEN {BlockAt(chain, index_height)}
         ELSE {Block(index_height, 0, PrevHashAt(chain, index_height), txdata) :
                 txdata \in ApiBlockChoices(chain, index_height, 0)}) :
       \E k \in 0 .. Len(block.txdata), stage \in 0 .. 4 :
         /\ (k = 0 /\ stage = 0) => Len(block.txdata) = 0
         /\ db' = PartialBlock(db, block, index_height, k, stage)
         /\ last' = [op |-> IF k = Len(block.txdata) /\ stage = 4
                            THEN "to_sqlite failed" ELSE "crash",
                     height |-> index_height, before |-> db, ok |-> TRUE]
         /\ chain' = IF index_height <= TipHeight(chain) THEN chain
                     ELSE Append(chain, block)
         /\ index_height' = started_height(PartialBlock(db, block, index_height, k, stage))
         /\ indexed' = IF k = Len(block.txdata) /\ stage >= 3
                       THEN Append(indexed, block) ELSE indexed
  /\ epoch' = epoch + 1
  /\ UNCHANGED <<reorg_height, pc, cur, relstore>>
  /\ UNCHANGED shutdown

NextCrash == CrashIndexBlock \/ Crash

SpecCrash == Init /\ [][NextCrash]_vars

\* ------------------------------------------ the store as a reader sees it

\* The API task reads the FastStore while the main loop works on a block
\* (main.rs 60-62): the block body has reached a point between two of its
\* store writes.  pc is "in block" until the body ends.
BeginBlock ==
  /\ pc = "fetch"
  /\ index_height <= MaxReadHeight
  /\ \E txdata \in ApiBlockChoices(chain, index_height, epoch) :
       LET block == Block(index_height, epoch, PrevHashAt(chain, index_height), txdata)
       IN \E k \in 0 .. Len(txdata), stage \in 0 .. 4 :
            /\ db' = PartialBlock(db, block, index_height, k, stage)
            /\ cur' = [block |-> block, height |-> index_height, latest |-> index_height]
            /\ chain' = Append(chain, block)
            /\ last' = [op |-> "partial", height |-> index_height, before |-> db,
                        ok |-> TRUE]
  /\ pc' = "in block"
  /\ UNCHANGED <<epoch, index_height, reorg_height, indexed, relstore>>
  /\ UNCHANGED shutdown

\* The block body runs to its end (main.rs 181-230).
EndBlock ==
  /\ pc = "in block"
  /\ LET r == CommitBlock(last.before, cur.block, cur.height)
     IN /\ db' = r.db
        /\ relstore' = RelCommitBlock(last.before, relstore, cur.block, cur.height)
        /\ last' = [op |-> "commit", height |-> cur.height, before |-> last.before,
                    ok |-> r.ok]
        /\ IF r.ok
           THEN /\ pc' = "fetch"
                /\ index_height' = cur.height + 1
                /\ indexed' = Append(indexed, cur.block)
           ELSE /\ pc' = "halted"
                /\ UNCHANGED <<index_height, indexed>>
  /\ UNCHANGED <<chain, epoch, reorg_height, cur>>
  /\ UNCHANGED shutdown

NextRead == BeginBlock \/ EndBlock

SpecRead == Init /\ [][NextRead]_vars

\* ------------------------------------- the main loop, failures and the signal

\* rpc.rs with_retry for a call that succeeds the first_ok-th time it is made
\* and fails before: [ok, calls], calls the number of calls made.
RECURSIVE with_retry(_, _, _)
with_retry(first_ok, attempts, attempt) ==
  IF attempt + 1 = first_ok THEN [ok |-> TRUE, calls |-> attempt + 1]
  ELSE IF attempt < attempts - 1 THEN with_retry(first_ok, attempts, attempt + 1)
  ELSE [ok |-> FALSE, calls |-> attempt + 1]

\* The Ctrl-C handler runs (main.rs 29-32), at any point of the loop.
Signal ==
  /\ ~shutdown
  /\ pc \in {"fetch", "in block"}
  /\ shutdown' = TRUE
  /\ UNCHANGED <<chain, epoch, db, index_height, reorg_height, pc, cur, indexed, last,
                 relstore>>

\* main.rs 103-110: the loop finds the flag set, flushes the FastStore, aborts
\* the API task and breaks.
Shutdown ==
  /\ pc = "fetch"
  /\ shutdown
  /\ pc' = "stopped"
  /\ last' = [op |-> "shutdown", height |-> index_height, before |-> db, ok |-> TRUE,
              flushed |-> TRUE, aborted |-> TRUE]
  /\ UNCHANGED <<chain, epoch, db, index_height, reorg_height, cur, indexed, relstore,
                 shutdown>>

\* An iteration that finds the flag clear and whose fetch succeeds within
\* FetchAttempts calls; the block body then starts.
LoopBeginBlock ==
  /\ ~shutdown
  /\ \E first_ok \in 1 .. FetchAttempts : with_retry(first_ok, FetchAttempts, 0).ok
  /\ BeginBlock

\* An iteration that finds the flag clear and whose fetch fails in every call
\* with_retry makes (the node does not answer get_block_count): with_retry
\* returns Err, which the `_` arm of main.rs 232-234 logs.
FetchFails ==
  /\ pc = "fetch"
  /\ ~shutdown
  /\ \E first_ok \in {FetchAttempts + 1, None} :
       /\ ~with_retry(first_ok, FetchAttempts, 0).ok
       /\ last' = [op |-> "fetch failed", height |-> index_height, before |-> db,
                   ok |-> FALSE,
                   calls |-> with_retry(first_ok, FetchAttempts, 0).calls]
  /\ UNCHANGED <<chain, epoch, db, index_height, reorg_height, pc, cur, indexed, relstore,
                 shutdown>>

\* The block body has made every FastStore write of the block and to_sqlite
\* returns an error: `?` makes main return it (main.rs 218).
SqliteFails ==
  /\ pc = "in block"
  /\ db' = PartialBlock(last.before, cur.block, cur.height, Len(cur.block.txdata), 4)
  /\ last' = [op |-> "to_sqlite failed", height |-> cur.height, before |-> last.before,
              ok |-> FALSE]
  /\ pc' = "halted"
  /\ UNCHANGED <<chain, epoch, index_height, reorg_height, cur, indexed, relstore,
                 shutdown>>

\* The loop runs on: a block body that has started reaches its end or its
\* error (it is a finite computation), and the loop at its top with the flag
\* set takes the break.
FairLoop ==
  /\ Init
  /\ [][LoopBeginBlock \/ EndBlock \/ FetchFails \/ SqliteFails \/ Signal
        \/ Shutdown]_vars
  /\ []<>(pc # "in block") /\ WF_vars(Shutdown)

\* ------------------------------------------- index_runes on one transaction

\* An input that reveals a commitment to `name`, mature at height h.
CommitInput(name, h) == TxIn(<<0, 0, 0, 1>>, name, TRUE, h - COMMIT_CONFIRMATIONS + 1)

\* Spends the outpoints a and b to one output.
JoinTx(txid, a, b) ==
  Tx(txid, <<TxIn(a, None, FALSE, 0), TxIn(b, None, FALSE, 0)>>, <<TxOut(FALSE, 22)>>,
     NoArtifact)

\* Chains index_runes is tried after: none; one etching; two etchings whose
\* premines are then joined in one output.
PreChains ==
  LET f == first_rune_height
      b6 == Block(f, 0, BlockHash(f - 1, 0), <<EtchTx(<<f, 0, 0>>, f, 2, 25)>>)
      b7 == Block(f + 1, 0, b6.hash, <<EtchTx(<<f + 1, 0, 0>>, f + 1, None, 25)>>)
      b8 == Block(f + 2, 0, b7.hash,
                  <<JoinTx(<<f + 2, 0, 0>>, <<f, 0, 0, 0>>, <<f + 1, 0, 0, 0>>)>>)
  IN {<<>>, <<b6>>, <<b6, b7, b8>>}

\* The transactions index_runes is tried on, after the store d, at height h:
\* what Runestone::decipher can return for a transaction of up to two inputs
\* and two outputs.
TxShapes(d, h, txid) ==
  LET unspent == {o \in DOMAIN d.balances : d.balances[o].spent = 0}
      ids == (DOMAIN d.runeEntries) \cup {<<1, 0>>}
      inputs == {<<PlainInput>>, <<CommitInput(3, h)>>}
                \cup {<<TxIn(o, None, FALSE, 0)>> : o \in unspent}
                \cup {<<TxIn(o, None, FALSE, 0), CommitInput(3, h)>> : o \in unspent}
      outputs == {<<TxOut(FALSE, 25)>>, <<TxOut(FALSE, 25), TxOut(FALSE, 22)>>,
                  <<TxOut(TRUE, 0), TxOut(FALSE, 25)>>, <<TxOut(TRUE, 0)>>}
      terms == Terms(1, 2, <<None, None>>, <<None, None>>)
      etchings == {NoEtching, Etching(3, 3, terms), Etching(2, 3, terms),
                   Etching(None, 2, NoTerms)}
      mints == {NoId} \cup ids
      edictsFor(n) == {<<>>}
                      \cup {<<Edict(id, amount, output)>> :
                              id \in ids \cup {ZeroId}, amount \in {0, 1, 9},
                              output \in 0 .. n}
      artifacts(n) ==
        {NoArtifact}
        \cup {Cenotaph(m, e) : m \in mints, e \in {NoEtching, Etching(3, None, NoTerms)}}
        \cup {Runestone(m, e, ed, ptr) :
                m \in mints, e \in etchings, ed \in edictsFor(n),
                ptr \in {None} \cup (0 .. (n - 1))}
  IN UNION {{Tx(txid, input, output, a) : input \in inputs, a \in artifacts(Len(output))} :
            output \in outputs}

\* A store that processed one of PreChains.
InitTx ==
  /\ chain \in PreChains
  /\ epoch = 0
  /\ db = RunOf(chain)
  /\ index_height = first_rune_height + Len(chain)
  /\ reorg_height = 0
  /\ pc = "fetch"
  /\ cur = NoCur
  /\ indexed = chain
  /\ last = NoLast
  /\ relstore = RelRunOf(chain)
  /\ shutdown = FALSE

\* One block holding one transaction is processed.
TxStep ==
  /\ last.op = "none"
  /\ \E tx \in TxShapes(db, index_height, <<index_height, 0, 0>>) :
       LET block == Block(index_height, 0, PrevHashAt(chain, index_height), <<tx>>)
           r == CommitBlock(db, block, index_height)
       IN /\ db' = r.db
          /\ last' = [op |-> "tx", height |-> index_height, before |-> db, ok |-> r.ok]
          /\ chain' = Append(chain, block)
          /\ indexed' = Append(indexed, block)
          /\ cur' = [block |-> block, height |-> index_height, latest |-> index_height]
          /\ relstore' = RelCommitBlock(db, relstore, block, index_height)
  /\ index_height' = index_height + 1
  /\ UNCHANGED <<epoch, reorg_height, pc>>
  /\ UNCHANGED shutdown

SpecTx == InitTx /\ [][TxStep]_vars

\* One block holding one transaction is processed, and the store is rewound.
SpecTxRewind == InitTx /\ [][TxStep \/ ApiRewind]_vars

\* ----------------------------------------------- etched on one transaction

\* Names an etching is tried with: below the minimum, etched by PreChains,
\* free, reserved, and none.
TriedNames == {1, 2, 3, ReservedBase + 5, None}

\* Inputs whose tapscript pushes the commitment of a name: the spent output
\* p2tr or not, the commitment COMMIT_CONFIRMATIONS or one block fewer deep.
CommitInputs(h) ==
  {TxIn(<<0, 0, 0, 1>>, push, p2tr, commit_height) :
     push \in TriedNames \ {None}, p2tr \in BOOLEAN,
     commit_height \in {h - COMMIT_CONFIRMATIONS + 1, h - COMMIT_CONFIRMATIONS + 2}}

\* The etching transactions tried at height h: one or two inputs, none of
\* which holds runes, and an etching in a runestone or a cenotaph.
EtchShapes(h, txid) ==
  LET ins == {PlainInput} \cup CommitInputs(h)
      inputs == {<<a>> : a \in ins} \cup {<<a, b>> : a \in ins, b \in CommitInputs(h)}
      terms == Terms(1, 2, <<None, None>>, <<None, None>>)
      artifacts ==
        {Runestone(NoId, Etching(name, premine, terms), <<>>, None) :
           name \in TriedNames, premine \in {None, 3}}
        \cup {Cenotaph(NoId, Etching(name, None, NoTerms)) : name \in TriedNames \ {None}}
  IN {Tx(txid, input, <<TxOut(FALSE, 25)>>, a) : input \in inputs, a \in artifacts}

\* A transaction without runes that may stand before the etching in its block.
FillerTx(txid) == Tx(txid, <<PlainInput>>, <<TxOut(FALSE, 25)>>, NoArtifact)

\* One block whose last transaction is an etching is processed.
EtchStep ==
  /\ last.op = "none"
  /\ \E lead \in {<<>>, <<FillerTx(<<index_height, 0, 9>>)>>} :
       \E tx \in EtchShapes(index_height, <<index_height, 0, Len(lead)>>) :
         LET block == Block(index_height, 0, PrevHashAt(chain, index_height),
                            Append(lead, tx))
         IN /\ db' = CommitBlock(db, block, index_height).db
            /\ last' = [op |-> "etch", height |-> index_height, before |-> db,
                        ok |-> CommitBlock(db, block, index_height).ok]
            /\ chain' = Append(chain, block)
            /\ indexed' = Append(indexed, block)
            /\ cur' = [block |-> block, height |-> index_height, latest |-> index_height]
            /\ relstore' = RelCommitBlock(db, relstore, block, index_height)
  /\ index_height' = index_height + 1
  /\ UNCHANGED <<epoch, reorg_height, pc>>
  /\ UNCHANGED shutdown

SpecEtch == InitTx /\ [][EtchStep]_vars

\* ------------------------------------------------- mintable on one entry

\* An entry etched at first_rune_height, with up to two mints counted, and a
\* height: without terms, or with each of cap, amount, the two heights and the
\* two offsets absent or present.
InitMintable ==
  /\ chain = <<>>
  /\ epoch = 0
  /\ db = EmptyDb
  /\ index_height = first_rune_height
  /\ reorg_height = 0
  /\ pc = "fetch"
  /\ indexed = <<>>
  /\ last = NoLast
  /\ relstore = EmptyRel
  /\ \E h \in first_rune_height .. first_rune_height + 4, mints \in 0 .. 2,
        terms \in {NoTerms}
                  \cup {Terms(amount, cap, <<hs, he>>, <<os, oe>>) :
                          amount \in {None, 5}, cap \in {None, 0, 1, 2},
                          hs \in {None, 7, 9}, he \in {None, 7, 9},
                          os \in {None, 1, 3}, oe \in {None, 1, 3}} :
       cur = [block |-> NoCur.block, height |-> h, latest |-> h,
              entry |-> [block |-> first_rune_height, burned |-> 0,
                         etching |-> <<first_rune_height, 0, 0>>, terms |-> terms,
                         mints |-> mints, number |-> 0, premine |-> 0, rune |-> 3]]
  /\ shutdown = FALSE

\* entry.mintable(height) is called.
MintableStep ==
  /\ last.op = "none"
  /\ last' = [op |-> "mintable", height |-> cur.height, before |-> db,
              ok |-> Mintable(cur.entry, cur.height).ok,
              result |-> Mintable(cur.entry, cur.height)]
  /\ UNCHANGED <<chain, epoch, db, index_height, reorg_height, pc, cur, indexed, relstore>>
  /\ UNCHANGED shutdown

SpecMintable == InitMintable /\ [][MintableStep]_vars

\* ------------------------------------------ the edict loop, edict by edict

\* Runestones with edicts. Outputs: three ordinary ones; an OP_RETURN between
\* two ordinary ones; only OP_RETURN; one ordinary output. Edicts: none, one
\* or two for the same id, which is the zero id, the first etched id or an id
\* without entry, with amount 0, small or large, to every output and to the
\* number of outputs. The transaction etches the name 3 with premine 10 or
\* etches nothing, and spends an outpoint that holds runes or none.
EdictShapes(d, h, txid) ==
  LET unspent == {o \in DOMAIN d.balances : d.balances[o].spent = 0}
      inputs == {<<CommitInput(3, h)>>}
                \cup {<<TxIn(o, None, FALSE, 0), CommitInput(3, h)>> : o \in unspent}
      outputs == {<<TxOut(FALSE, 25), TxOut(FALSE, 22), TxOut(FALSE, 25)>>,
                  <<TxOut(FALSE, 25), TxOut(TRUE, 0), TxOut(FALSE, 22)>>,
                  <<TxOut(TRUE, 0), TxOut(TRUE, 0)>>,
                  <<TxOut(FALSE, 25)>>}
      terms == Terms(1, 2, <<None, None>>, <<None, None>>)
      etchings == {NoEtching, Etching(3, 10, terms)}
      over(n) == {Edict(id, amount, output) :
                    id \in {ZeroId, <<first_rune_height, 0>>, <<1, 0>>},
                    amount \in {0, 3, 20}, output \in 0 .. n}
      lists(n) == {<<>>} \cup {<<e>> : e \in over(n)}
                  \cup {p \in {<<e, f>> : e \in over(n), f \in over(n)} :
                          p[1].id = p[2].id}
  IN UNION {{Tx(txid, input, output, Runestone(NoId, e, ed, None)) :
               input \in inputs, e \in etchings, ed \in lists(Len(output))} :
            output \in outputs}

\* index_runes up to the edict loop (updater.rs 43-66).
BeforeEdicts(d, height, tx) ==
  TxPremine(TxEtch(TxMint(Unallocated(NewUpdater(d), height, tx), height, tx),
                   height, 0, tx),
            tx)

\* index_runes after the edict loop and the rest of the block body
\* (updater.rs 141-272, main.rs 204-216).
AfterEdictLoop(u, runes_num_before, block, height) ==
  BlockTail(WriteOut(TxResidual(TxCreate(u, block.txdata[1]), block.txdata[1]),
                     block.txdata[1], height, 0),
            runes_num_before, block, height, 4)

\* A block with one runestone is taken up and index_runes runs to the edict
\* loop: cur.u is the updater, cur.i the next edict, cur.prev the updater
\* before the last edict applied.
BeginEdicts ==
  /\ pc = "fetch"
  /\ last.op = "none"
  /\ \E tx \in EdictShapes(db, index_height, <<index_height, 0, 0>>) :
       LET block == Block(index_height, 0, PrevHashAt(chain, index_height), <<tx>>)
       IN /\ cur' = [block |-> block, height |-> index_height, latest |-> index_height,
                     u |-> BeforeEdicts(db, index_height, tx),
                     prev |-> BeforeEdicts(db, index_height, tx), i |-> 1]
          /\ db' = BeforeEdicts(db, index_height, tx).db
          /\ chain' = Append(chain, block)
  /\ pc' = "edicts"
  /\ last' = [op |-> "partial", height |-> index_height, before |-> db, ok |-> TRUE]
  /\ UNCHANGED <<epoch, index_height, reorg_height, indexed, relstore>>
  /\ UNCHANGED shutdown

\* One iteration of `for Edict { id, amount, output } in runestone.edicts`.
EdictStep ==
  /\ pc = "edicts"
  /\ cur.i <= Len(cur.block.txdata[1].artifact.edicts)
  /\ cur' = [cur EXCEPT
               !.prev = cur.u,
               !.u = ApplyEdict(cur.u, cur.block.txdata[1].artifact.edicts[cur.i],
                                cur.block.txdata[1]),
               !.i = cur.i + 1]
  /\ UNCHANGED <<chain, epoch, db, index_height, reorg_height, pc, indexed, last, relstore>>
  /\ UNCHANGED shutdown

\* The loop is over: the rest of index_runes and of the block body.
EndEdicts ==
  /\ pc = "edicts"
  /\ cur.i > Len(cur.block.txdata[1].artifact.edicts)
  /\ db' = AfterEdictLoop(cur.u, GetOr0(last.before.statValue, StatRunes),
                          cur.block, cur.height)
  /\ relstore' = RelCommitBlock(last.before, relstore, cur.block, cur.height)
  /\ last' = [op |-> "commit", height |-> cur.height, before |-> last.before, ok |-> TRUE]
  /\ indexed' = Append(indexed, cur.block)
  /\ index_height' = cur.height + 1
  /\ pc' = "fetch"
  /\ UNCHANGED <<chain, epoch, reorg_height, cur>>
  /\ UNCHANGED shutdown

NextEdict == BeginEdicts \/ EdictStep \/ EndEdicts

SpecEdict == InitTx /\ [][NextEdict]_vars

\* C1: after reorg_to_height(R) the FastStore equals the FastStore of a run
\* that processed only the blocks below R.
C1_RewindEqualsRunBelow ==
  (last.op = "reorg" /\ last.ok) => View(db) = View(RunOf(indexed))

\* A rewind of the main loop has completed on a store holding runes.
C1_Rewound ==
  last.op = "reorg" /\ last.ok /\ DOMAIN last.before.runeEntries # {}

\* C4: for every height h above first_rune_height whose header and the header
\* at h - 1 are both stored, the stored header at h names the hash of the
\* stored header at h - 1 as its previous block.
C4_HeaderChain ==
  \A h \in DOMAIN db.headers :
    (h > first_rune_height /\ (h - 1) \in DOMAIN db.headers)
      => db.headers[h].prev = db.headers[h - 1].hash

\* The block the main loop is about to fetch does not build on the stored
\* header below it, at a height where the loop compares the two.
GuardFails ==
  /\ pc = "fetch"
  /\ index_height <= TipHeight(chain)
  /\ index_height - 1 > first_rune_height
  /\ (index_height - 1) \in DOMAIN db.headers
  /\ db.headers[index_height - 1].hash # BlockAt(chain, index_height).prev

\* m + 1 for the greatest height m below next - 1 at which the stored header's
\* hash is the node's block hash; first_rune_height when there is none.
ResumePoint ==
  LET M == {m \in (first_rune_height + 1) .. (index_height - 2) :
              /\ m \in DOMAIN db.headers
              /\ db.headers[m].hash = BlockAt(chain, m).hash}
  IN IF M = {} THEN first_rune_height
     ELSE (CHOOSE m \in M : \A n \in M : n <= m) + 1

\* C5: a fetch of the main loop whose reorg guard fails resets index_height and
\* the pending rewind height to the resume point and hands no block on, and a
\* block is committed only when no rewind is pending.
C5_GuardResets ==
  [][/\ (GuardFails /\ chain' = chain)
          => /\ index_height' = ResumePoint
             /\ reorg_height' = ResumePoint
             /\ pc' = "fetch"
     /\ (last'.op = "commit" /\ last' # last) => reorg_height = 0]_vars

\* C6: after a block commit, for every rune id, RuneEntry.burned and
\* RUNE_ID_TO_BURNED both equal the sum of the stored per-height burned deltas
\* up to the committed height.
C6_BurnedIsSumOfDeltas ==
  (last.op = "commit" /\ last.ok) =>
    \A id \in DOMAIN db.runeEntries :
      LET sum == SumOver(db.heightBurned,
                         {k \in DOMAIN db.heightBurned :
                            <<k[1], k[2]>> = id /\ k[3] <= last.height})
      IN db.runeEntries[id].burned = sum /\ GetOr0(db.idBurned, id) = sum

\* The height of the last block whose effects the store holds.
IndexedHeight == IF last.op = "reorg" THEN last.height - 1 ELSE last.height

\* C7: after a block commit and after a rewind, for every stored rune id,
\* RuneEntry.mints equals RUNE_ID_TO_MINTS and the sum of the stored per-height
\* mint deltas up to the indexed height.
C7_MintsIsSumOfDeltas ==
  (last.op \in {"commit", "reorg"} /\ last.ok) =>
    \A id \in DOMAIN db.runeEntries :
      LET sum == SumOver(db.heightMints,
                         {k \in DOMAIN db.heightMints :
                            <<k[1], k[2]>> = id /\ k[3] <= IndexedHeight})
      IN db.runeEntries[id].mints = sum /\ GetOr0(db.idMints, id) = sum

\* C8: after a block commit and after a rewind, Statistic::Runes equals the
\* number of rune entries and the sum of the stored (Runes, h) deltas up to the
\* indexed height, reserved runes included.
C8_RunesCount ==
  (last.op \in {"commit", "reorg"} /\ last.ok) =>
    /\ GetOr0(db.statValue, StatRunes) = Cardinality(DOMAIN db.runeEntries)
    /\ GetOr0(db.statValue, StatRunes) =
         SumOver(db.statCount,
                 {k \in DOMAIN db.statCount : k[1] = StatRunes /\ k[2] <= IndexedHeight})

\* A rewind has completed which deleted a rune entry and kept one of a
\* reserved rune.
C8_CountedAfterRewind ==
  /\ last.op = "reorg" /\ last.ok
  /\ \E id \in DOMAIN db.runeEntries : IsReserved(db.runeEntries[id].rune)
  /\ Cardinality(DOMAIN last.before.runeEntries) > Cardinality(DOMAIN db.runeEntries)

\* Every block handed to the store so far was handed over before the rewind,
\* and all of them are committed again.
ReplayDone ==
  /\ epoch >= 1
  /\ pc = "fetch"
  /\ last.op = "commit"
  /\ index_height = TipHeight(chain) + 1
  /\ \A k \in DOMAIN chain : chain[k].hash[2] = 0

\* C2: processing blocks up to T, rewinding to R and processing the same
\* blocks R..T again leaves the FastStore that processing them once leaves.
C2_ReplayIdempotent ==
  ReplayDone => View(db) = View(RunOf(chain))

\* The blocks replayed after a rewind hold a mint of a rune etched before.
C2_ReplayedMint ==
  /\ ReplayDone
  /\ \E k \in DOMAIN db.heightMints : TRUE

\* The height of the indexed block that spends outpoint o, None when none does.
SpentAt(o) ==
  LET ks == {k \in DOMAIN indexed :
               \E i \in DOMAIN indexed[k].txdata :
                 \E j \in DOMAIN indexed[k].txdata[i].input :
                   indexed[k].txdata[i].input[j].prev = o}
  IN IF ks = {} THEN None
     ELSE first_rune_height + (CHOOSE k \in ks : \A l \in ks : k <= l) - 1

\* C9: for every balance entry, spent_height is 0 exactly when no transaction
\* of the indexed chain spends the outpoint, and else the height of the
\* spending block.
C9_SpentIffSpentInChain ==
  pc = "fetch" =>
    \A o \in DOMAIN db.balances :
      /\ (db.balances[o].spent = 0) <=> (SpentAt(o) = None)
      /\ db.balances[o].spent # 0 => db.balances[o].spent = SpentAt(o)

\* A rewind has completed which put back an outpoint spent above the rewind
\* height.
C9_Unspent ==
  /\ last.op = "reorg" /\ last.ok
  /\ \E o \in DOMAIN db.balances :
       last.before.balances[o].spent # 0 /\ db.balances[o].spent = 0

AmountIn(e, id) ==
  SumOver([k \in DOMAIN e.balances |->
             IF e.balances[k][1] = id THEN e.balances[k][2] ELSE 0],
          DOMAIN e.balances)

\* C3: for the transaction just processed and every rune id, the amounts on the
\* spent outpoints, plus the premine of the rune the transaction etched, plus
\* the amount it minted, equal the amounts written to its outputs plus the
\* amount recorded as burned.
C3_TxConservation ==
  (last.op = "tx" /\ last.ok) =>
    LET tx == cur.block.txdata[1]
        h == last.height
        before == last.before
        outs == {OutPoint(tx.txid, v) : v \in Vouts(tx)} \cap DOMAIN db.balances
        spent == {tx.input[i].prev : i \in DOMAIN tx.input} \cap DOMAIN before.balances
        ids == (DOMAIN db.runeEntries) \cup {tx.artifact.mint}
               \cup {<<k[1], k[2]>> : k \in DOMAIN db.heightBurned}
        In(id) == SumOver([o \in spent |-> AmountIn(before.balances[o], id)], spent)
        Premine(id) == IF id \in DOMAIN db.runeEntries /\ id \notin DOMAIN before.runeEntries
                       THEN db.runeEntries[id].premine ELSE 0
        Minted(id) == IF GetOr0(db.idMints, id) > GetOr0(before.idMints, id)
                      THEN db.runeEntries[id].terms.amount ELSE 0
        Out(id) == SumOver([o \in outs |-> AmountIn(db.balances[o], id)], outs)
        Burned(id) == GetOr0(db.heightBurned, id \o <<h>>)
    IN \A id \in ids : In(id) + Premine(id) + Minted(id) = Out(id) + Burned(id)

\* A transaction spent an outpoint holding two runes, minted, held an edict,
\* burned something and left something on an output.
C3_SpentMintedSentBurned ==
  /\ last.op = "tx" /\ last.ok
  /\ LET tx == cur.block.txdata[1] IN
     /\ \E i \in DOMAIN tx.input :
          /\ tx.input[i].prev \in DOMAIN last.before.balances
          /\ Len(last.before.balances[tx.input[i].prev].balances) = 2
     /\ GetOr0(db.idMints, tx.artifact.mint) > GetOr0(last.before.idMints, tx.artifact.mint)
     /\ Len(tx.artifact.edicts) = 1
     /\ \E k \in DOMAIN db.heightBurned : k[3] = last.height
     /\ \E v \in Vouts(tx) : OutPoint(tx.txid, v) \in DOMAIN db.balances

\* C11: immediately after a reorg_to_height that ran to its end, the number of
\* every stored rune entry is the count of stored rune ids below its own in
\* ascending (block, tx) order.
C11_NumberIsOrdinal ==
  (last.op = "reorg" /\ last.ok) =>
    \A id \in DOMAIN db.runeEntries :
      db.runeEntries[id].number =
        Cardinality({other \in DOMAIN db.runeEntries : LexLess(other, id)})

\* A rewind has completed that deleted a rune entry and left two or more.
C11_RenumberedTwo ==
  /\ last.op = "reorg" /\ last.ok
  /\ Cardinality(DOMAIN db.runeEntries) >= 2
  /\ Cardinality(DOMAIN last.before.runeEntries) > Cardinality(DOMAIN db.runeEntries)

\* C12: when the process stopped while it worked on a block and was started
\* again, then once blocks are committed the FastStore equals the FastStore of
\* a run that processed the same blocks without interruption.
C12_RestartEqualsUninterrupted ==
  (epoch >= 1 /\ last.op = "commit" /\ last.ok) => View(db) = View(RunOf(indexed))

\* A block was committed on a store that held writes of an earlier, interrupted
\* attempt at the same block.
C12_CommittedAfterCrash ==
  /\ epoch >= 1 /\ last.op = "commit" /\ last.ok
  /\ Len(indexed) >= 1
  /\ last.height = first_rune_height + Len(indexed) - 1
  /\ View(last.before) # View(RunOf(SubSeq(indexed, 1, Len(indexed) - 1)))

\* C13: when to_sqlite fails for block H, HEIGHT_TO_BLOCK_HEADER[H] is absent,
\* latest_indexed_height() is below H and after the restart block H is the
\* next block to be processed.
C13_SqliteFailureRetriesBlock ==
  last.op = "to_sqlite failed" =>
    /\ last.height \notin DOMAIN db.headers
    /\ (latest_indexed_height(db) = None \/ latest_indexed_height(db) < last.height)
    /\ index_height = last.height

\* to_sqlite failed for a block that holds a rune transaction.
C13_SqliteFailed ==
  /\ last.op = "to_sqlite failed"
  /\ Len(BlockAt(chain, last.height).txdata) > 0

\* C14: at every instant the FastStore holds the mutations of a prefix of fully
\* committed blocks: of the blocks committed so far, or of these and the block
\* in progress, never some but not all mutations of one block.
C14_ReaderSeesWholeBlocks ==
  \/ View(db) = View(RunOf(indexed))
  \/ pc = "in block" /\ View(db) = View(RunOf(Append(indexed, cur.block)))

\* The main loop is inside a block that holds a rune transaction.
C14_InsideBlock ==
  /\ pc = "in block"
  /\ Len(cur.block.txdata) > 0
  /\ db # last.before

\* The (outpoint, rune id, amount, confirmed_height, spent_height) tuples
\* decoded from the balance entries of the FastStore.
BalanceTuples(d) ==
  UNION {{<<o, d.balances[o].balances[k][1], d.balances[o].balances[k][2],
            d.balances[o].confirmed, d.balances[o].spent>> :
            k \in DOMAIN d.balances[o].balances} : o \in DOMAIN d.balances}

\* The rune_balance rows of the RelStore projected on their first five
\* columns, with the number of rows behind each tuple.
RelTuples ==
  [t \in {SubSeq(r, 1, 5) : r \in DOMAIN relstore.rune_balance} |->
     SumOver(relstore.rune_balance,
             {r \in DOMAIN relstore.rune_balance : SubSeq(r, 1, 5) = t})]

\* C15: after every block commit and every rewind the rune_balance rows of
\* the RelStore, projected on (txid, vout, rune_id, rune_amount, height,
\* spent_height), are exactly the tuples decoded from the balance entries of
\* the FastStore, each stored once.
C15_RelStoreMirrorsFastStore ==
  (last.op \in {"commit", "reorg"} /\ last.ok) =>
    RelTuples = [t \in BalanceTuples(db) |-> 1]

\* A rewind has deleted a row and put one back as unspent.
C15_RewoundRows ==
  /\ last.op = "reorg" /\ last.ok
  /\ \E t \in BalanceTuples(last.before) : t[4] >= last.height
  /\ \E t \in BalanceTuples(last.before) : t[4] < last.height /\ t[5] >= last.height

\* mint() returns None for id on the store d at height: no entry, or
\* mintable(height) is an error.
MintRejected(d, id, height) ==
  \/ id \notin DOMAIN d.runeEntries
  \/ ~Mintable(d.runeEntries[id], height).ok

\* The most mints the terms of the entry e allow.
CapOf(e) == IF e.terms.some /\ e.terms.cap # None THEN e.terms.cap ELSE 0

\* C16: a mint whose rune entry is missing or whose mintable(H) is rejected
\* changes nothing -- RUNE_ID_TO_MINTS, the per-height mint delta of (id, H),
\* the rune entry and the transaction's unallocated balance (nothing of the
\* rune reaches an output) -- and the mints of an entry never exceed its
\* terms.cap.
C16_RejectedMintAndCap ==
  /\ \A id \in DOMAIN db.runeEntries : db.runeEntries[id].mints <= CapOf(db.runeEntries[id])
  /\ (/\ last.op \in {"commit", "tx"} /\ last.ok
      /\ Len(BlockAt(chain, last.height).txdata) = 1
      /\ BlockAt(chain, last.height).txdata[1].artifact.mint # NoId
      /\ MintRejected(last.before, BlockAt(chain, last.height).txdata[1].artifact.mint, last.height)) =>
       LET tx == BlockAt(chain, last.height).txdata[1]
           id == tx.artifact.mint
           spent == {tx.input[i].prev : i \in DOMAIN tx.input} \cap DOMAIN last.before.balances
       IN /\ GetOr0(db.idMints, id) = GetOr0(last.before.idMints, id)
          /\ GetOr0(db.heightMints, id \o <<last.height>>)
               = GetOr0(last.before.heightMints, id \o <<last.height>>)
          /\ id \in DOMAIN last.before.runeEntries =>
                /\ id \in DOMAIN db.runeEntries
                /\ db.runeEntries[id].mints = last.before.runeEntries[id].mints
          /\ (\A o \in spent : AmountIn(last.before.balances[o], id) = 0) =>
                /\ (id \in DOMAIN last.before.runeEntries =>
                      db.runeEntries[id] = last.before.runeEntries[id])
                /\ \A v \in Vouts(tx) :
                     (/\ OutPoint(tx.txid, v) \in DOMAIN db.balances
                      /\ OutPoint(tx.txid, v) \notin DOMAIN last.before.balances) =>
                       (tx.artifact.etching.some
                        \/ AmountIn(db.balances[OutPoint(tx.txid, v)], id) = 0)

\* A mint was rejected because the cap was reached, in a block that was
\* committed.
C16_MintAtCapRejected ==
  /\ last.op = "commit" /\ last.ok
  /\ Len(BlockAt(chain, last.height).txdata) = 1
  /\ BlockAt(chain, last.height).txdata[1].artifact.mint \in DOMAIN last.before.runeEntries
  /\ last.before.runeEntries[BlockAt(chain, last.height).txdata[1].artifact.mint].mints
       = CapOf(last.before.runeEntries[BlockAt(chain, last.height).txdata[1].artifact.mint])
  /\ CapOf(last.before.runeEntries[BlockAt(chain, last.height).txdata[1].artifact.mint]) > 0

\* The etching transaction of the block just processed and its index.
EtchingTx == cur.block.txdata[Len(cur.block.txdata)]
EtchingTxIndex == Len(cur.block.txdata) - 1

\* The four conditions on the name of EtchingTx, on the store before.
NameAcceptable ==
  /\ EtchingTx.artifact.etching.rune >= MinimumAtHeight(last.height)
  /\ ~IsReserved(EtchingTx.artifact.etching.rune)
  /\ EtchingTx.artifact.etching.rune \notin DOMAIN last.before.runeToId
  /\ TxCommitsToRune(EtchingTx, EtchingTx.artifact.etching.rune, last.height)

\* C17: an etching that names a rune is accepted iff the name is not below the
\* minimum at H, not reserved, not mapped in RUNE_TO_RUNE_ID and committed to
\* by the transaction; a rejected one creates no entry and no mapping, credits
\* no premine and leaves Statistic::Runes as it was; an accepted one gets the
\* RuneId (H, tx_index).
C17_EtchingAcceptedIff ==
  (last.op = "etch" /\ last.ok /\ EtchingTx.artifact.etching.rune # None) =>
    IF NameAcceptable
    THEN /\ <<last.height, EtchingTxIndex>> \in DOMAIN db.runeEntries
         /\ db.runeEntries[<<last.height, EtchingTxIndex>>].rune
              = EtchingTx.artifact.etching.rune
         /\ db.runeToId = Put(last.before.runeToId, EtchingTx.artifact.etching.rune,
                              <<last.height, EtchingTxIndex>>)
         /\ DOMAIN db.runeEntries
              = (DOMAIN last.before.runeEntries) \cup {<<last.height, EtchingTxIndex>>}
    ELSE /\ db.runeEntries = last.before.runeEntries
         /\ db.runeToId = last.before.runeToId
         /\ GetOr0(db.statValue, StatRunes) = GetOr0(last.before.statValue, StatRunes)
         /\ db.statCount = last.before.statCount
         /\ db.balances = last.before.balances
         /\ db.heightBurned = last.before.heightBurned

\* An etching with an acceptable name and a premine was accepted as the second
\* transaction of its block.
C17_AcceptedSecond ==
  /\ last.op = "etch" /\ last.ok
  /\ EtchingTx.artifact.etching.rune # None
  /\ NameAcceptable
  /\ EtchingTxIndex = 1
  /\ OutPoint(EtchingTx.txid, 0) \in DOMAIN db.balances

\* C18: RUNE_TO_RUNE_ID[n] = id iff the entry of id is stored and has the
\* name n, and no two stored entries have the same name.
C18_NamesAndIdsOneToOne ==
  /\ \A n \in DOMAIN db.runeToId :
       /\ db.runeToId[n] \in DOMAIN db.runeEntries
       /\ db.runeEntries[db.runeToId[n]].rune = n
  /\ \A id \in DOMAIN db.runeEntries :
       /\ db.runeEntries[id].rune \in DOMAIN db.runeToId
       /\ db.runeToId[db.runeEntries[id].rune] = id
  /\ \A a, b \in DOMAIN db.runeEntries :
       db.runeEntries[a].rune = db.runeEntries[b].rune => a = b

\* A rewind removed a named entry and a reserved one, the blocks were
\* processed again and two entries are stored.
C18_ReplayedTwoNames ==
  /\ epoch >= 1
  /\ last.op = "commit" /\ last.ok
  /\ Cardinality(DOMAIN db.runeEntries) >= 2
  /\ \E id \in DOMAIN db.runeEntries : IsReserved(db.runeEntries[id].rune)
  /\ \E id \in DOMAIN db.runeEntries : ~IsReserved(db.runeEntries[id].rune)

\* C19: tx_commits_to_rune is true iff some input pushes the commitment of the
\* name in its tapscript, spends a p2tr output, and H - commit_height + 1 >=
\* COMMIT_CONFIRMATIONS.  Seen on an etching whose name passes the three other
\* tests of etched: it is accepted exactly when there is such an input.
C19_CommitsIffMatureTaprootPush ==
  (/\ last.op = "etch" /\ last.ok
   /\ EtchingTx.artifact.etching.rune # None
   /\ EtchingTx.artifact.etching.rune >= MinimumAtHeight(last.height)
   /\ ~IsReserved(EtchingTx.artifact.etching.rune)
   /\ EtchingTx.artifact.etching.rune \notin DOMAIN last.before.runeToId) =>
    ((<<last.height, EtchingTxIndex>> \in DOMAIN db.runeEntries)
      <=> \E i \in DOMAIN EtchingTx.input :
            /\ EtchingTx.input[i].push = EtchingTx.artifact.etching.rune
            /\ EtchingTx.input[i].p2tr
            /\ last.height - EtchingTx.input[i].commit_height + 1 >= COMMIT_CONFIRMATIONS)

\* An etching was accepted whose first input pushes the commitment but spends
\* an output that is not p2tr, and whose second input commits.
C19_SecondInputCommits ==
  /\ last.op = "etch" /\ last.ok
  /\ <<last.height, EtchingTxIndex>> \in DOMAIN db.runeEntries
  /\ Len(EtchingTx.input) = 2
  /\ EtchingTx.input[1].push = EtchingTx.artifact.etching.rune
  /\ ~EtchingTx.input[1].p2tr
  /\ EtchingTx.input[2].push = EtchingTx.artifact.etching.rune
  /\ last.height - EtchingTx.input[2].commit_height + 1 = COMMIT_CONFIRMATIONS

\* C20: for a transaction whose artifact is a cenotaph no balance entry and no
\* rune_balance row is written for its outputs, and for every rune the amount
\* on the spent outpoints plus the amount of a successful mint is what the
\* block records as burned.
C20_CenotaphBurnsAll ==
  (last.op = "tx" /\ last.ok /\ cur.block.txdata[1].artifact.kind = "cenotaph") =>
    LET tx == cur.block.txdata[1]
        spent == {tx.input[i].prev : i \in DOMAIN tx.input} \cap DOMAIN last.before.balances
        ids == (DOMAIN db.runeEntries) \cup {tx.artifact.mint}
               \cup {<<k[1], k[2]>> : k \in DOMAIN db.heightBurned}
    IN /\ \A v \in Vouts(tx) : OutPoint(tx.txid, v) \notin DOMAIN db.balances
       /\ \A r \in DOMAIN relstore.rune_balance : r[4] # last.height
       /\ \A id \in ids :
            GetOr0(db.heightBurned, id \o <<last.height>>)
              = SumOver([o \in spent |-> AmountIn(last.before.balances[o], id)], spent)
                + (IF id = tx.artifact.mint /\ ~MintRejected(last.before, id, last.height)
                   THEN last.before.runeEntries[id].terms.amount ELSE 0)

\* A cenotaph spent an outpoint holding two runes and minted one of them.
C20_BurnedInputsAndMint ==
  /\ last.op = "tx" /\ last.ok
  /\ cur.block.txdata[1].artifact.kind = "cenotaph"
  /\ ~MintRejected(last.before, cur.block.txdata[1].artifact.mint, last.height)
  /\ Cardinality({k \in DOMAIN db.heightBurned : k[3] = last.height /\ db.heightBurned[k] > 0}) = 2
  /\ Len(cur.block.txdata[1].output) = 2

\* The single transaction of the block just processed, the updater when its
\* edicts are applied and its entry created, and its tags in tx_ops.
TheTx == cur.block.txdata[1]
AfterEdicts == PartialTx(NewUpdater(last.before), last.height, 0, TheTx, 4)
TagsOfTheTx ==
  GetOrEmpty(CommitBlock(last.before, cur.block, last.height).temp.tx_ops, TheTx.txid)

\* The outputs of TheTx that are not OP_RETURN.
PlainOutputs == {v \in Vouts(TheTx) : ~TheTx.output[v + 1].op_return}

\* The amount of rune id the block stored for output v of TheTx (0: no entry).
StoredAt(v, id) ==
  IF OutPoint(TheTx.txid, v) \in DOMAIN db.balances
  THEN AmountIn(db.balances[OutPoint(TheTx.txid, v)], id) ELSE 0

\* The amount of rune id at output v when the residual of id is added to the
\* output `target` (None: to no output).
WithResidual(v, id, target) ==
  GetOr0(AfterEdicts.al[v], id) + (IF v = target THEN AfterEdicts.un[id] ELSE 0)

BeforeWriteOut == TxResidual(AfterEdicts, TheTx)

\* What the transaction burns apart from its OP_RETURN outputs: all that is
\* unallocated for a cenotaph, else what is left when no output can take it.
BurnedUnallocated(id) ==
  IF id \notin DOMAIN AfterEdicts.un THEN 0
  ELSE IF TheTx.artifact.kind = "cenotaph" THEN AfterEdicts.un[id]
  ELSE IF TheTx.artifact.pointer = None /\ PlainOutputs = {} THEN AfterEdicts.un[id]
  ELSE 0

\* C22: no balance entry and no rune_balance row is written for an OP_RETURN
\* output; what an edict or the pointer allocated to such an output is added
\* to the burned amount of its rune and credited to no output.
C22_OpReturnBurns ==
  (last.op = "tx" /\ last.ok) =>
    /\ \A v \in Vouts(TheTx) \ PlainOutputs :
         /\ OutPoint(TheTx.txid, v) \notin DOMAIN db.balances
         /\ \A r \in DOMAIN relstore.rune_balance : r[1] # OutPoint(TheTx.txid, v)
    /\ \A id \in DOMAIN db.runeEntries :
         /\ GetOr0(db.heightBurned, id \o <<last.height>>)
              = SumOver([v \in Vouts(TheTx) \ PlainOutputs |->
                           GetOr0(BeforeWriteOut.al[v], id)],
                        Vouts(TheTx) \ PlainOutputs)
                + BurnedUnallocated(id)
         /\ \A v \in PlainOutputs : StoredAt(v, id) = GetOr0(BeforeWriteOut.al[v], id)

\* An edict sent an amount to an OP_RETURN output below the number of outputs
\* while another output of the transaction was credited.
C22_EdictToOpReturn ==
  /\ last.op = "tx" /\ last.ok /\ TheTx.artifact.kind = "runestone"
  /\ Len(TheTx.artifact.edicts) = 1
  /\ TheTx.artifact.pointer = None
  /\ TheTx.artifact.edicts[1].output \in Vouts(TheTx) \ PlainOutputs
  /\ \E id \in DOMAIN db.runeEntries :
       /\ GetOr0(db.heightBurned, id \o <<last.height>>) > 0
       /\ \E v \in PlainOutputs : StoredAt(v, id) > 0

\* The edict the loop has just applied, and its transaction.
LastEdict == cur.block.txdata[1].artifact.edicts[cur.i - 1]

EdictTx == cur.block.txdata[1]

\* The rune id an edict stands for before the updater p: the zero id stands
\* for the id this transaction etched.
EdictId(p, edict) == IF edict.id = ZeroId THEN p.etched.id ELSE edict.id

\* The edict is skipped: the zero id without etching, or no unallocated entry.
EdictSkipped(p, edict) ==
  \/ edict.id = ZeroId /\ ~p.etched.some
  \/ EdictId(p, edict) \notin DOMAIN p.un

\* All rune ids an allocation of updater u or p may name.
EdictIds(p, u) ==
  DOMAIN p.un \cup DOMAIN u.un
  \cup UNION {DOMAIN p.al[v] \cup DOMAIN u.al[v] : v \in Vouts(EdictTx)}

\* The edict changed nothing but the unallocated and allocated balances.
EdictFrame(p, u) == [u EXCEPT !.un = p.un, !.al = p.al] = p

\* C23: an edict to one output (output < number of outputs) over an
\* unallocated balance b moves exactly min(amount, b), or b when amount is 0,
\* from the unallocated balance of its id to that output and changes nothing
\* else, a later edict starting from the reduced balance; an edict with the
\* zero id stands for the id this transaction etched and is skipped when it
\* etched none; an edict whose id has no unallocated entry is skipped.
C23_EdictToOneOutput ==
  (pc = "edicts" /\ cur.i > 1 /\ LastEdict.output < Len(EdictTx.output)) =>
    LET p == cur.prev
        u == cur.u
        id == EdictId(p, LastEdict)
    IN IF EdictSkipped(p, LastEdict) THEN u = p
       ELSE LET b == p.un[id]
                moved == IF LastEdict.amount > 0
                         THEN (IF LastEdict.amount < b THEN LastEdict.amount ELSE b)
                         ELSE b
            IN /\ EdictFrame(p, u)
               /\ DOMAIN u.un = DOMAIN p.un
               /\ \A r \in DOMAIN p.un :
                    u.un[r] = p.un[r] - (IF r = id THEN moved ELSE 0)
               /\ \A v \in Vouts(EdictTx) : \A r \in EdictIds(p, u) :
                    GetOr0(u.al[v], r) =
                      GetOr0(p.al[v], r)
                      + (IF v = LastEdict.output /\ r = id THEN moved ELSE 0)

\* C23 witness: over the premine of 10 of the rune this transaction etches,
\* an edict of 3 to output 1 and then an edict of 0 to output 2, both with
\* the zero id, have left 3 at output 1, 7 at output 2 and nothing
\* unallocated.
C23_ThreeThenRest ==
  /\ pc = "edicts"
  /\ cur.i = 3
  /\ EdictTx.artifact.edicts = <<Edict(ZeroId, 3, 1), Edict(ZeroId, 0, 2)>>
  /\ cur.u.etched.some
  /\ cur.prev.un[cur.u.etched.id] = 7
  /\ cur.u.un[cur.u.etched.id] = 0
  /\ GetOr0(cur.u.al[1], cur.u.etched.id) = 3
  /\ GetOr0(cur.u.al[2], cur.u.etched.id) = 7


\* The outputs of the edict's transaction that are not OP_RETURN.
EdictDests == {v \in Vouts(EdictTx) : ~EdictTx.output[v + 1].op_return}

\* C24: an edict with output = number of outputs and amount 0, over an
\* unallocated balance b of its id, with D the outputs that are not
\* OP_RETURN: when D is empty nothing changes; otherwise the output of D with
\* k outputs of D below it receives floor(b / |D|), one more when
\* k < b mod |D|, no other output receives anything, and the unallocated
\* balance of the id becomes 0.
C24_SplitOverOutputs ==
  (/\ pc = "edicts" /\ cur.i > 1
   /\ LastEdict.output = Len(EdictTx.output) /\ LastEdict.amount = 0
   /\ ~EdictSkipped(cur.prev, LastEdict)) =>
    LET p == cur.prev
        u == cur.u
        id == EdictId(p, LastEdict)
        b == p.un[id]
        size == Cardinality(EdictDests)
        share(v) == IF v \notin EdictDests THEN 0
                    ELSE (b \div size)
                         + (IF Cardinality({w \in EdictDests : w < v}) < b % size
                            THEN 1 ELSE 0)
    IN IF size = 0 THEN u = p
       ELSE /\ EdictFrame(p, u)
            /\ DOMAIN u.un = DOMAIN p.un
            /\ \A r \in DOMAIN p.un : u.un[r] = (IF r = id THEN 0 ELSE p.un[r])
            /\ \A v \in Vouts(EdictTx) : \A r \in EdictIds(p, u) :
                 GetOr0(u.al[v], r) =
                   GetOr0(p.al[v], r) + (IF r = id THEN share(v) ELSE 0)

\* C24 witness: the premine of 10 of the rune this transaction etches is
\* split by one edict over three ordinary outputs, which receive 4, 3 and 3.
C24_FourThreeThree ==
  /\ pc = "edicts"
  /\ cur.i = 2
  /\ EdictTx.artifact.edicts = <<Edict(ZeroId, 0, 3)>>
  /\ EdictDests = {0, 1, 2}
  /\ cur.u.etched.some
  /\ cur.prev.un[cur.u.etched.id] = 10
  /\ cur.u.un[cur.u.etched.id] = 0
  /\ GetOr0(cur.u.al[0], cur.u.etched.id) = 4
  /\ GetOr0(cur.u.al[1], cur.u.etched.id) = 3
  /\ GetOr0(cur.u.al[2], cur.u.etched.id) = 3


\* The heights the mint window of the entry may start at, and end at: the
\* entry's block plus the offset, and the absolute height, where given.
WindowStarts ==
  {cur.entry.block + o : o \in {cur.entry.terms.offset[1]} \ {None}}
  \cup ({cur.entry.terms.height[1]} \ {None})

WindowEnds ==
  {cur.entry.block + o : o \in {cur.entry.terms.offset[2]} \ {None}}
  \cup ({cur.entry.terms.height[2]} \ {None})

\* C25: mintable(h) of an entry is, in this order of precedence: Unmintable
\* without terms; Start(start) when h is below the largest of the given
\* starts; End(end) when h is at or above the smallest of the given ends;
\* Cap(cap) when mints >= cap, an absent cap being 0; and otherwise Ok(amount),
\* an absent amount being 0.
C25_MintablePrecedence ==
  (last.op = "mintable") =>
    LET e == cur.entry
        h == cur.height
        cap == IF e.terms.cap = None THEN 0 ELSE e.terms.cap
    IN IF ~e.terms.some THEN last.result = MintErr("Unmintable", None)
       ELSE IF \E s \in WindowStarts : h < s
       THEN /\ last.result.err = "Start"
            /\ last.result.arg \in WindowStarts
            /\ \A s \in WindowStarts : s <= last.result.arg
       ELSE IF \E t \in WindowEnds : h >= t
       THEN /\ last.result.err = "End"
            /\ last.result.arg \in WindowEnds
            /\ \A t \in WindowEnds : last.result.arg <= t
       ELSE IF e.mints >= cap THEN last.result = MintErr("Cap", cap)
       ELSE /\ last.result.ok
            /\ last.result.amount = (IF e.terms.amount = None THEN 0 ELSE e.terms.amount)

\* C25 witness: the height is past the end of the window and the mints have
\* reached the cap, with both ends given; the result is End with the smaller
\* end.
C25_EndBeforeCap ==
  /\ last.op = "mintable"
  /\ cur.entry.terms.some
  /\ cur.entry.terms.cap = 1 /\ cur.entry.mints = 2
  /\ WindowEnds = {7, 9}
  /\ cur.height = 8
  /\ last.result = MintErr("End", 7)


\* C26: every balance buffer in OUTPOINT_TO_RUNE_BALANCES, after any commits
\* and rewinds, decodes to (rune id, amount) pairs with strictly ascending
\* rune ids and amounts that are not zero.
C26_BuffersAscendingNonZero ==
  \A o \in DOMAIN db.balances :
    LET b == db.balances[o].balances
    IN /\ \A k \in DOMAIN b : b[k][2] > 0
       /\ \A k \in DOMAIN b : \A l \in DOMAIN b : k < l => LexLess(b[k][1], b[l][1])

\* C26 witness: a rewind has marked unspent again a stored buffer that holds
\* two rune ids.
C26_TwoIdsAfterRewind ==
  /\ last.op = "reorg"
  /\ \E o \in DOMAIN db.balances :
       /\ Len(db.balances[o].balances) >= 2
       /\ last.before.balances[o].spent > 0
       /\ db.balances[o].spent = 0


\* C27: the reorg check never resets the index height to less than
\* REORG_DEPTH below the height it was about to fetch, and reorg_to_height
\* is never called for a height that is more than REORG_DEPTH below the
\* height after the highest stored header.
C27_WalkBounded ==
  [][/\ index_height' < index_height => index_height' >= index_height - REORG_DEPTH
     /\ (last'.op = "reorg" /\ last' # last)
          => last'.height >= latest_indexed_height(db) + 1 - REORG_DEPTH]_vars

\* C27 witness: a rewind is pending for a height more than REORG_DEPTH below
\* the height after the highest stored header.
C27_ResetBelowDepth ==
  /\ reorg_height # 0
  /\ latest_indexed_height(db) # None
  /\ reorg_height < latest_indexed_height(db) + 1 - REORG_DEPTH


\* Every height from first_rune_height to the node's tip has a stored header
\* with the hash of the node's block, and the next height to fetch is the one
\* after the tip.
Synced ==
  /\ index_height = TipHeight(chain) + 1
  /\ \A h \in first_rune_height .. TipHeight(chain) :
       h \in DOMAIN db.headers /\ db.headers[h].hash = BlockAt(chain, h).hash

\* C28: the node's chain changing finitely often, the main loop eventually
\* reaches, and stays in, a state where every stored header up to the tip is
\* the node's and the index height is the tip plus one.
C28_EventuallySynced == <>[]Synced

\* C28 witness: the main loop has committed a block on top of a stored header
\* that is not the node's.
C28_CommittedOnStaleHeader ==
  /\ last.op = "commit" /\ last.ok
  /\ pc = "fetch"
  /\ index_height = TipHeight(chain) + 1
  /\ \E h \in DOMAIN db.headers :
       h <= TipHeight(chain) /\ db.headers[h].hash # BlockAt(chain, h).hash


\* C29: when the fetch of the next block has failed in all FetchAttempts calls
\* of with_retry, the loop has stopped: no block body starts afterwards.
C29_FetchFailureFatal ==
  [][last.op = "fetch failed" => pc' # "in block"]_vars

\* C29 witness: with_retry has called the closure FetchAttempts times, every
\* call has failed, and the loop is at its top again.
C29_TenCallsFailed ==
  /\ last.op = "fetch failed"
  /\ last.calls = FetchAttempts
  /\ pc = "fetch"
  /\ ~shutdown

\* The loop has been left: by the break after the signal, or because the
\* process panicked or main returned an error.
LoopLeft == pc \in {"stopped", "halted"}

\* The parts of C30, in its order.
ShutdownTerminates == shutdown ~> LoopLeft

NoBlockAfterSignal == [][shutdown => ~(pc = "fetch" /\ pc' = "in block")]_vars

NoStopInsideBlock ==
  [][(shutdown /\ pc = "in block") => pc' \in {"in block", "fetch"}]_vars

FlushedAndAborted ==
  [](shutdown /\ LoopLeft => last.op = "shutdown" /\ last.flushed /\ last.aborted)

\* C30: after the shutdown signal is set the loop eventually terminates; it
\* starts no block once the flag is set, it does not stop between the first
\* and the last store write of the block in progress, and it has flushed the
\* FastStore and aborted the API task when it is left.
C30_ShutdownAfterBlock ==
  /\ ShutdownTerminates
  /\ NoBlockAfterSignal
  /\ NoStopInsideBlock
  /\ FlushedAndAborted

\* C30 witness: the signal was set while a block was in progress, the
\* FastStore writes of the block were made, to_sqlite failed and the loop was
\* left with the header of the block stored and no flush.
C30_LeftInsideBlock ==
  /\ shutdown
  /\ pc = "halted"
  /\ last.op = "to_sqlite failed"
  /\ last.height \in DOMAIN db.headers
  /\ last.height \notin DOMAIN last.before.headers

\* C31: on mainnet, after the bootstrap of any start, the entry 1:0 exists
\* with number 0, the (Runes, 1) count is 1 and Statistic::Runes counts it (it
\* is 1 while 1:0 is the only entry), so every rune etched by block processing
\* has a number of 1 or more.
C31_GenesisCounted ==
  /\ GenesisId \in DOMAIN db.runeEntries
  /\ db.runeEntries[GenesisId].number = 0
  /\ GetOr0(db.statCount, <<StatRunes, 1>>) = 1
  /\ (DOMAIN db.runeEntries = {GenesisId} => GetOr0(db.statValue, StatRunes) = 1)
  /\ \A id \in (DOMAIN db.runeEntries) \ {GenesisId} : db.runeEntries[id].number >= 1

\* C31 witness: a block was committed on a bootstrapped store and the rune it
\* etched has the number 0, as the rune 1:0 has.
C31_FirstEtchedNumberedZero ==
  /\ last.op = "commit" /\ last.ok
  /\ last.before = Bootstrap(last.before)
  /\ GenesisId \in DOMAIN db.runeEntries
  /\ db.runeEntries[GenesisId].number = 0
  /\ \E id \in (DOMAIN db.runeEntries) \ (DOMAIN last.before.runeEntries) :
       db.runeEntries[id].number = 0

\* C32: after reorg_to_height(R) has run to its end, RUNE_ID_HEIGHT_TO_MINTS
\* and RUNE_ID_HEIGHT_TO_BURNED hold no row (rune id, h) with h >= R, for
\* runes etched below R too, and every row with h < R is as it was.
C32_DeltaRowsCut ==
  (last.op = "reorg" /\ last.ok) =>
    /\ \A k \in DOMAIN db.heightMints : k[3] < last.height
    /\ \A k \in DOMAIN db.heightBurned : k[3] < last.height
    /\ \A k \in DOMAIN last.before.heightMints :
         k[3] < last.height =>
           k \in DOMAIN db.heightMints /\ db.heightMints[k] = last.before.heightMints[k]
    /\ \A k \in DOMAIN last.before.heightBurned :
         k[3] < last.height =>
           k \in DOMAIN db.heightBurned /\ db.heightBurned[k] = last.before.heightBurned[k]

\* C32 witness: a rewind to R has ended and a mint row at or above R of a rune
\* etched below R is still stored.
C32_MintRowAboveRewind ==
  /\ last.op = "reorg" /\ last.ok
  /\ \E k \in DOMAIN db.heightMints : k[1] < last.height /\ k[3] >= last.height

\* C33: after reorg_to_height(R) has run to its end, HEIGHT_TO_STATISTIC_COUNT
\* holds no row (statistic, h) with h >= R, of the tag Runes or of the tag
\* ReservedRunes, whatever rows below R the other tag has.
C33_CountRowsCut ==
  (last.op = "reorg" /\ last.ok) =>
    \A k \in DOMAIN db.statCount : k[2] < last.height

\* C33 witness: a rewind to R has ended, a (Runes, h) row with h < R is stored
\* and a (ReservedRunes, h) row with h >= R has stayed.
C33_ReservedRowAboveRewind ==
  /\ last.op = "reorg" /\ last.ok
  /\ \E k \in DOMAIN db.statCount : k[1] = StatRunes /\ k[2] < last.height
  /\ \E k \in DOMAIN db.statCount : k[1] = StatReservedRunes /\ k[2] >= last.height

\* C34: after every block commit and every rewind, holders of every
\* rune_entry row is the number of distinct addresses among the unspent
\* rune_balance rows of the rune, and transactions the number of distinct
\* txids among the rows' txids and the spent rows' spent_txids.
C34_HoldersAndTransactions ==
  (last.op \in {"commit", "reorg"} /\ last.ok) =>
    \A id \in DOMAIN relstore.rune_entry :
      /\ relstore.rune_entry[id].holders = Holders(relstore.rune_balance, id)
      /\ relstore.rune_entry[id].transactions = Transactions(relstore.rune_balance, id)

\* A rewind has deleted or un-spent a rune_balance row of a rune whose
\* rune_entry row it keeps.
C34_RewoundBalanceOfKeptRune ==
  /\ last.op = "reorg" /\ last.ok
  /\ \E id \in DOMAIN relstore.rune_entry :
       \E t \in BalanceTuples(last.before) :
         t[2] = id /\ (t[4] >= last.height \/ t[5] >= last.height)

\* ------------------------------- etched when the node does not answer

\* The attempts tx_commits_to_rune gives with_retry for the previous
\* transaction of an input.
CommitAttempts == 5

\* What the node does when asked for the previous transaction of an input:
\* 0, it answers that it has no such transaction; n > 0, its n-th answer is
\* the first that is not an error.
PrevTxAnswers == {0, 1, CommitAttempts, CommitAttempts + 1}

\* The loop of tx_commits_to_rune from input i on, with the node's answers
\* per input: "true", "false", or "panic" when the previous transaction of an
\* input that pushes the commitment is missing (panic!) or with_retry returns
\* its error (unwrap).  An input that pushes without being resolved is not
\* tested further.
RECURSIVE tx_commits_to_rune_skipping(_, _, _, _, _)
tx_commits_to_rune_skipping(tx, rune, height, answers, i) ==
  IF i > Len(tx.input) THEN "false"
  ELSE IF tx.input[i].push # rune
  THEN tx_commits_to_rune_skipping(tx, rune, height, answers, i + 1)
  ELSE IF answers[i] = 0 \/ ~with_retry(answers[i], CommitAttempts, 0).ok
  THEN tx_commits_to_rune_skipping(tx, rune, height, answers, i + 1)
  ELSE IF InputCommits(tx.input[i], rune, height) THEN "true"
  ELSE tx_commits_to_rune_skipping(tx, rune, height, answers, i + 1)

\* RuneUpdater::tx_commits_to_rune from input i on, with the node's answers
\* per input: "true", "false", or "panic" when the previous transaction of an
\* input that pushes the commitment is missing (panic!) or with_retry returns
\* its error (unwrap).
RECURSIVE tx_commits_to_rune(_, _, _, _, _)
tx_commits_to_rune(tx, rune, height, answers, i) ==
  IF i > Len(tx.input) THEN "false"
  ELSE IF tx.input[i].push # rune
  THEN tx_commits_to_rune(tx, rune, height, answers, i + 1)
  ELSE IF answers[i] = 0 \/ ~with_retry(answers[i], CommitAttempts, 0).ok
  THEN "panic"
  ELSE IF InputCommits(tx.input[i], rune, height) THEN "true"
  ELSE tx_commits_to_rune(tx, rune, height, answers, i + 1)

\* etched() on tx after the store d reaches the call of tx_commits_to_rune:
\* the etching names a rune that is not below the minimum, not reserved and
\* not etched yet (updater.rs 383-400).
ReachesCommitment(d, height, tx) ==
  /\ tx.artifact.kind # "none"
  /\ tx.artifact.etching.some
  /\ tx.artifact.etching.rune # None
  /\ tx.artifact.etching.rune >= MinimumAtHeight(height)
  /\ ~IsReserved(tx.artifact.etching.rune)
  /\ tx.artifact.etching.rune \notin DOMAIN d.runeToId

\* One block whose last transaction is an etching is processed while the node
\* answers the lookups of previous transactions as `answers` says.  When
\* tx_commits_to_rune panics, the process ends with the store as the writes
\* before etched() left it; else the block is processed as CommitBlock does,
\* with the result tx_commits_to_rune returned.
ResolveStep ==
  /\ last.op = "none"
  /\ pc = "fetch"
  /\ \E lead \in {<<>>, <<FillerTx(<<index_height, 0, 9>>)>>} :
       \E tx \in EtchShapes(index_height, <<index_height, 0, Len(lead)>>) :
         \E answers \in [DOMAIN tx.input -> PrevTxAnswers] :
           \E block \in {Block(index_height, 0, PrevHashAt(chain, index_height),
                               Append(lead, tx))} :
             \E u \in {PartialTx(IndexTxs(NewUpdater(db), index_height, lead, 1),
                                 index_height, Len(lead), tx, 2)} :
               /\ chain' = Append(chain, block)
               /\ cur' = [block |-> block, height |-> index_height,
                          latest |-> index_height, answers |-> answers]
               /\ IF /\ ReachesCommitment(u.db, index_height, tx)
                     /\ tx_commits_to_rune(tx, tx.artifact.etching.rune, index_height,
                                           answers, 1) = "panic"
                  THEN /\ db' = u.db
                       /\ pc' = "halted"
                       /\ last' = [op |-> "etch", height |-> index_height,
                                   before |-> db, ok |-> FALSE]
                       /\ UNCHANGED <<index_height, indexed, relstore>>
                  ELSE \E r \in {CommitBlock(db, block, index_height)} :
                         /\ db' = r.db
                         /\ pc' = pc
                         /\ last' = [op |-> "etch", height |-> index_height,
                                     before |-> db, ok |-> r.ok]
                         /\ index_height' = index_height + 1
                         /\ indexed' = Append(indexed, block)
                         /\ relstore' = (IF r.ok THEN to_sqlite(relstore, r.temp)
                                         ELSE relstore)
  /\ UNCHANGED <<epoch, reorg_height, shutdown>>

SpecResolve == InitTx /\ [][ResolveStep]_vars

\* The etching of the block in progress, its last transaction.
C35_Etching == cur.block.txdata[Len(cur.block.txdata)]

\* tx_commits_to_rune has asked for the previous transaction of input i of
\* the etching, whose tapscript pushes the commitment, and has not got it:
\* the name passed the tests before, no earlier input committed, and the
\* node has no such transaction or answered with an error 5 times.
C35_Unresolved(i) ==
  /\ ReachesCommitment(last.before, last.height, C35_Etching)
  /\ C35_Etching.input[i].push = C35_Etching.artifact.etching.rune
  /\ cur.answers[i] \in {0, CommitAttempts + 1}
  /\ \A j \in 1 .. (i - 1) :
       \/ C35_Etching.input[j].push # C35_Etching.artifact.etching.rune
       \/ /\ cur.answers[j] \in {1, CommitAttempts}
          /\ ~InputCommits(C35_Etching.input[j], C35_Etching.artifact.etching.rune,
                           last.height)

\* C35: when the previous transaction of an input whose tapscript pushes the
\* commitment cannot be resolved (it is missing, or the call fails on all 5
\* attempts), the processing of the block ends the process: no RuneEntry is
\* stored for the etching, the header of the block is not stored and the
\* index height is not advanced.
C35_UnresolvedIsFatal ==
  (last.op = "etch" /\ \E i \in DOMAIN C35_Etching.input : C35_Unresolved(i)) =>
    /\ pc = "halted"
    /\ <<last.height, Len(cur.block.txdata) - 1>> \notin DOMAIN db.runeEntries
    /\ C35_Etching.artifact.etching.rune \notin DOMAIN db.runeToId
    /\ last.height \notin DOMAIN db.headers
    /\ index_height = last.height
    /\ started_height(db) = last.height

\* The second input's previous transaction fails on every attempt after the
\* first input pushed the commitment from an output that is not taproot.
C35_SecondInputUnresolved ==
  /\ last.op = "etch"
  /\ Len(C35_Etching.input) = 2
  /\ C35_Unresolved(2)
  /\ C35_Etching.input[1].push = C35_Etching.artifact.etching.rune
  /\ cur.answers[2] = CommitAttempts + 1

\* C36: after the commit of block H every key (h, outpoint) of
\* HEIGHT_OUTPOINT_TO_RUNE_IDS has H - h < REORG_DEPTH, and for every height
\* h <= H with H - h < REORG_DEPTH the row (h, outpoint) is stored for every
\* outpoint whose balance entry was confirmed or spent at h.
C36_SideIndexWindow ==
  (last.op = "commit" /\ last.ok) =>
    /\ \A k \in DOMAIN db.sideIndex : last.height - k[1] < REORG_DEPTH
    /\ \A o \in DOMAIN db.balances :
         \A h \in {db.balances[o].confirmed, db.balances[o].spent} \ {0} :
           (h <= last.height /\ last.height - h < REORG_DEPTH) =>
             <<h>> \o o \in DOMAIN db.sideIndex

\* The commit of a block has dropped the rows of a block that is REORG_DEPTH
\* below it and kept the rows of a block above that one.
C36_DroppedAndKept ==
  /\ last.op = "commit" /\ last.ok
  /\ \E k \in DOMAIN last.before.sideIndex : last.height - k[1] = REORG_DEPTH
  /\ \E k \in DOMAIN db.sideIndex : last.height - k[1] = REORG_DEPTH - 1

\* ------------------------------ the main loop after a long branch over runes

\* The first block is empty, the second etches a rune with a premine and the
\* third moves the premine to another output.
DeepBlocks ==
  <<Block(first_rune_height, 0, BlockHash(first_rune_height - 1, 0), <<>>),
    Block(first_rune_height + 1, 0, BlockHash(first_rune_height, 0),
          <<EtchTx(<<first_rune_height + 1, 0, 0>>, first_rune_height + 1, 2, 25)>>),
    Block(first_rune_height + 2, 0, BlockHash(first_rune_height + 1, 0),
          <<TransferTx(<<first_rune_height + 2, 0, 0>>,
                       <<first_rune_height + 1, 0, 0, 0>>)>>)>>

\* The indexer has processed DeepBlocks and then the node's empty blocks up to
\* a tip that is REORG_DEPTH or more above them: of an empty block the block
\* body stores the header (main.rs 214), and
\* height_outpoint_to_rune_ids_batch_put_and_del deletes the rows of the side
\* index that are REORG_DEPTH or more below it.
InitDeepRunes ==
  /\ \E tip \in (first_rune_height + 2 + REORG_DEPTH) .. MaxDeepTip :
       /\ chain = [k \in 1 .. (tip - first_rune_height + 1) |->
                    IF k <= Len(DeepBlocks) THEN DeepBlocks[k]
                    ELSE Block(first_rune_height + k - 1, 0,
                               BlockHash(first_rune_height + k - 2, 0), <<>>)]
       /\ index_height = tip + 1
       /\ \E d \in {RunOf(DeepBlocks)} :
            db = [d EXCEPT
                    !.headers =
                      [h \in first_rune_height .. tip |->
                         [hash |-> BlockHash(h, 0), prev |-> BlockHash(h - 1, 0)]],
                    !.sideIndex =
                      [k \in {x \in DOMAIN @ : tip - x[1] < REORG_DEPTH} |-> @[k]]]
  /\ epoch = 0
  /\ reorg_height = 0
  /\ pc = "fetch"
  /\ cur = NoCur
  /\ indexed = chain
  /\ last = NoLast
  /\ relstore = RelRunOf(DeepBlocks)
  /\ shutdown = FALSE

SpecDeepRunes == InitDeepRunes /\ [][ReorgLonger \/ Fetch \/ Rewind \/ IndexBlock]_vars

\* C37: after every rewind the main loop triggers, reorg_to_height(R) leaves
\* no balance entry with confirmed_height >= R and none with spent_height >= R.
C37_NothingAtOrAboveRewind ==
  (last.op = "reorg" /\ last.ok) =>
    \A o \in DOMAIN db.balances :
      db.balances[o].confirmed < last.height /\ db.balances[o].spent < last.height

\* The main loop has rewound to a height REORG_DEPTH or more below the
\* indexed tip, over a block that confirmed or spent a balance entry.
C37_DeepRewindOverBalances ==
  /\ last.op = "reorg" /\ last.ok
  /\ latest_indexed_height(last.before) - last.height >= REORG_DEPTH
  /\ \E o \in DOMAIN last.before.balances :
       \/ last.before.balances[o].confirmed >= last.height
       \/ last.before.balances[o].spent >= last.height

\* C38: reorg_to_height runs to completion on every store that processing
\* blocks and earlier rewinds lead to: the cross-check of the number of rune
\* entries holds, every row of the side index names a stored balance entry,
\* and un-spending an entry and collecting its rune ids does not abort.
C38_RewindCompletes ==
  (last.op = "reorg") => last.ok

\* A rewind met a side-index row of an entry that was spent at or above the
\* rewind height and confirmed below it.
C38_RewindUnspends ==
  /\ last.op = "reorg"
  /\ \E k \in DOMAIN last.before.sideIndex :
       /\ k[1] >= last.height
       /\ Tail(k) \in DOMAIN last.before.balances
       /\ last.before.balances[Tail(k)].confirmed < last.height
       /\ last.before.balances[Tail(k)].spent >= last.height

\* The sum of the amounts of rune id over the balance entries of the store
\* whose spent height is 0.
C39_Unspent(id) ==
  SumOver([o \in DOMAIN db.balances |-> AmountIn(db.balances[o], id)],
          {o \in DOMAIN db.balances : db.balances[o].spent = 0})

\* The sum of the stored per-height burned deltas of rune id.
C39_Burned(id) ==
  SumOver(db.heightBurned,
          {k \in DOMAIN db.heightBurned : <<k[1], k[2]>> = id})

\* C39: after any sequence of committed blocks, rewinds and replays, for
\* every stored rune the unspent amounts plus the per-height burned deltas
\* equal premine + mints * terms.amount of its entry (amount 0 when absent).
C39_SupplyConserved ==
  (last.op \in {"commit", "reorg"} /\ last.ok) =>
    \A id \in DOMAIN db.runeEntries :
      C39_Unspent(id) + C39_Burned(id)
        = db.runeEntries[id].premine
          + db.runeEntries[id].mints
            * (IF db.runeEntries[id].terms.some /\ db.runeEntries[id].terms.amount # None
               THEN db.runeEntries[id].terms.amount ELSE 0)

\* A rewind has removed a mint of a rune that stays stored.
C39_RewoundMint ==
  /\ last.op = "reorg" /\ last.ok
  /\ \E k \in DOMAIN last.before.heightMints :
       k[3] >= last.height /\ <<k[1], k[2]>> \in DOMAIN db.runeEntries

\* C40: after every block commit and every rewind the rune_id values of
\* rune_entry are the keys of RUNE_ID_TO_RUNE_ENTRY (the genesis rune of
\* mainnet among them), and number, mints and burned of each row equal the
\* fields of the stored RuneEntry.
C40_RuneEntryMirrorsFastStore ==
  (last.op \in {"commit", "reorg"} /\ last.ok) =>
    /\ DOMAIN relstore.rune_entry = DOMAIN db.runeEntries
    /\ \A id \in DOMAIN relstore.rune_entry :
         /\ relstore.rune_entry[id].number = db.runeEntries[id].number
         /\ relstore.rune_entry[id].mints = db.runeEntries[id].mints
         /\ relstore.rune_entry[id].burned = db.runeEntries[id].burned

\* A block that burned units of a stored rune has been committed on a store
\* that holds the genesis rune.
C40_BurnCommitted ==
  /\ last.op = "commit" /\ last.ok
  /\ GenesisId \in DOMAIN db.runeEntries
  /\ \E k \in DOMAIN db.heightBurned :
       k[3] = last.height /\ <<k[1], k[2]>> \in DOMAIN db.runeEntries

====
